---- MODULE Spec2Model ----
(***************************************************************************)
(* Model of the dooray-mcp tool handlers: the update-task orchestrator     *)
(* (tools/projects/update-task.ts) and the two-phase curl upload handlers  *)
(* (tools/wiki/upload-wiki-file.ts, tools/wiki/upload-wiki-page-file.ts).  *)
(*                                                                         *)
(* A JavaScript optional value is the empty tuple when it is undefined and *)
(* the one-element tuple <<v>> when it is supplied; null is the value Null.*)
(***************************************************************************)
EXTENDS Integers, Sequences, FiniteSets, TLC

\* ------------------------------------------------------------------------
\* Bounds of the model
\* ------------------------------------------------------------------------
MaxTags == 2
MaxMembers == 1

\* ------------------------------------------------------------------------
\* JavaScript values
\* ------------------------------------------------------------------------
Undefined == <<>>
Some(v) == <<v>>
IsDefined(o) == Len(o) > 0
Val(o) == o[1]
Null == "null"
Optional(S) == {Undefined} \cup {Some(v) : v \in S}

SeqsUpTo(S, n) == UNION {[1..k -> S] : k \in 0..n}

EmptyObject == [k \in {} |-> k]
ObjectKeys(o) == DOMAIN o

\* ------------------------------------------------------------------------
\* update-task: the argument space (updateTaskSchema)
\* ------------------------------------------------------------------------
ProjectId == "1"
TaskId == "2"
Subjects == {"", "s1"}
Bodies == {[mimeType |-> "text/x-markdown", content |-> "c1"]}
DueDates == {"2026-01-01T00:00:00Z"}
MilestoneIds == {Null, "m1"}
TagIdValues == {"a", "b"}
Priorities == {"high"}
MemberValues == {[id |-> "u1", type |-> "member"], [id |-> "g1", type |-> "group"]}
WorkflowIds == {"w1"}
ParentPostIds == {"99"}

updateTaskSchema ==
    [subject : Optional(Subjects),
     body : Optional(Bodies),
     assignees : Optional(SeqsUpTo(MemberValues, MaxMembers)),
     cc : Optional(SeqsUpTo(MemberValues, MaxMembers)),
     dueDate : Optional(DueDates),
     milestoneId : Optional(MilestoneIds),
     tagIds : Optional(SeqsUpTo(TagIdValues, MaxTags)),
     priority : Optional(Priorities),
     workflowId : Optional(WorkflowIds),
     parentPostId : Optional(ParentPostIds)]

NoArgs ==
    [subject |-> Undefined, body |-> Undefined, assignees |-> Undefined,
     cc |-> Undefined, dueDate |-> Undefined, milestoneId |-> Undefined,
     tagIds |-> Undefined, priority |-> Undefined, workflowId |-> Undefined,
     parentPostId |-> Undefined]

\* utils/member-transform.ts: an undefined list becomes the empty list, a
\* supplied list is mapped entry by entry to the API's tagged member shape.
transformMembers(members) ==
    IF ~IsDefined(members) THEN <<>>
    ELSE [i \in 1..Len(Val(members)) |->
            [type |-> Val(members)[i].type, ref |-> Val(members)[i].id]]

\* One "if (args.k !== undefined) updateParams.k = args.k" statement.
SetIfDefined(params, key, opt) ==
    IF IsDefined(opt) THEN (key :> Val(opt)) @@ params ELSE params

\* Variant: milestoneId is tested for truthiness instead of presence.
BuildUpdateParamsTruthy(a) ==
    LET p1 == SetIfDefined(EmptyObject, "subject", a.subject)
        p2 == SetIfDefined(p1, "body", a.body)
        p3 == SetIfDefined(p2, "dueDate", a.dueDate)
        p4 == IF IsDefined(a.milestoneId) /\ Val(a.milestoneId) # Null
              THEN ("milestoneId" :> Val(a.milestoneId)) @@ p3 ELSE p3
        p5 == SetIfDefined(p4, "tagIds", a.tagIds)
        p6 == SetIfDefined(p5, "priority", a.priority)
    IN  IF IsDefined(a.assignees) \/ IsDefined(a.cc)
        THEN ("users" :> [to |-> transformMembers(a.assignees),
                          cc |-> transformMembers(a.cc)]) @@ p6
        ELSE p6

\* Variant: tagIds is collected only when the list is non-empty.
BuildUpdateParamsNonEmptyTags(a) ==
    LET p1 == SetIfDefined(EmptyObject, "subject", a.subject)
        p2 == SetIfDefined(p1, "body", a.body)
        p3 == SetIfDefined(p2, "dueDate", a.dueDate)
        p4 == SetIfDefined(p3, "milestoneId", a.milestoneId)
        p5 == IF IsDefined(a.tagIds) /\ Len(Val(a.tagIds)) > 0
              THEN ("tagIds" :> Val(a.tagIds)) @@ p4 ELSE p4
        p6 == SetIfDefined(p5, "priority", a.priority)
    IN  IF IsDefined(a.assignees) \/ IsDefined(a.cc)
        THEN ("users" :> [to |-> transformMembers(a.assignees),
                          cc |-> transformMembers(a.cc)]) @@ p6
        ELSE p6

\* Variant: users is collected only when a supplied list has an entry.
BuildUpdateParamsUsersNonEmpty(a) ==
    LET p1 == SetIfDefined(EmptyObject, "subject", a.subject)
        p2 == SetIfDefined(p1, "body", a.body)
        p3 == SetIfDefined(p2, "dueDate", a.dueDate)
        p4 == SetIfDefined(p3, "milestoneId", a.milestoneId)
        p5 == SetIfDefined(p4, "tagIds", a.tagIds)
        p6 == SetIfDefined(p5, "priority", a.priority)
    IN  IF Len(transformMembers(a.assignees)) > 0 \/ Len(transformMembers(a.cc)) > 0
        THEN ("users" :> [to |-> transformMembers(a.assignees),
                          cc |-> transformMembers(a.cc)]) @@ p6
        ELSE p6

\* Lines 41-56: the field-patch payload built from the arguments.
BuildUpdateParams(a) ==
    LET p1 == SetIfDefined(EmptyObject, "subject", a.subject)
        p2 == SetIfDefined(p1, "body", a.body)
        p3 == SetIfDefined(p2, "dueDate", a.dueDate)
        p4 == SetIfDefined(p3, "milestoneId", a.milestoneId)
        p5 == SetIfDefined(p4, "tagIds", a.tagIds)
        p6 == SetIfDefined(p5, "priority", a.priority)
    IN  IF IsDefined(a.assignees) \/ IsDefined(a.cc)
        THEN ("users" :> [to |-> transformMembers(a.assignees),
                          cc |-> transformMembers(a.cc)]) @@ p6
        ELSE p6

\* ------------------------------------------------------------------------
\* The remote task and the REST endpoints the handler drives
\* ------------------------------------------------------------------------
InitialTask ==
    [id |-> TaskId,
     subject |-> "s0",
     body |-> [mimeType |-> "text/html", content |-> "c0"],
     users |-> [to |-> <<[type |-> "member", ref |-> "u0"]>>,
                cc |-> <<[type |-> "member", ref |-> "u9"]>>],
     dueDate |-> "2025-01-01T00:00:00Z",
     milestoneId |-> "m0",
     tagIds |-> <<"t0">>,
     priority |-> "none",
     workflowId |-> "w0",
     parentPostId |-> Null]

\* PUT /posts/{id}: every key received replaces the stored value wholesale.
ApplyPut(task, payload) ==
    [k \in DOMAIN task |-> IF k \in DOMAIN payload THEN payload[k] ELSE task[k]]

ApplyWorkflow(task, workflowId) == [task EXCEPT !.workflowId = workflowId]
ApplyParent(task, parentPostId) == [task EXCEPT !.parentPostId = parentPostId]

ApiError(op) == [message |-> <<op, "request failed">>]

\* utils/errors.ts
formatError(error) == error.message

SuccessEnvelope(value) == [isError |-> FALSE, text |-> <<"json", value>>]
ErrorEnvelope(error) == [isError |-> TRUE, text |-> <<"Error: ", formatError(error)>>]
NoEnvelope == [isError |-> FALSE, text |-> <<>>]

VARIABLES
    pc,            \* position of the update-task invocation
    args,          \* its arguments
    updateParams,  \* the field-patch payload
    result,        \* the handler's local `result` (Undefined while null)
    error,         \* the error caught by the handler, if any
    envelope,      \* the value the handler returned
    server,        \* the task as stored by the remote service
    calls,         \* every request issued, in order
    responses,     \* every answer received, in order
    inflight,      \* requests issued and not yet answered
    upc,           \* position of the upload invocation
    handler,       \* which upload handler runs: "wiki" or "page"
    apiToken,      \* process.env.DOORAY_API_TOKEN
    fileExists,    \* fs.existsSync(args.filePath)
    requests,      \* every curl command run, in order
    step1Response, \* status and redirect target of the first response
    httpCode,      \* the handler's local httpCode
    redirectUrl,   \* the handler's local redirectUrl
    response,      \* the parsed second-phase envelope
    uploadError,   \* the error caught by the upload handler, if any
    uploadEnvelope, \* the value the upload handler returned
    cpc,           \* position of the create-task invocation
    createArgs,    \* its arguments
    apiParams,     \* the creation request built by the handler
    createCalls,   \* every creation call issued, in order
    createError,   \* the error caught by create-task, if any
    createEnvelope, \* the value create-task returned
    dpc,           \* position of the download invocation
    downloader,    \* which download handler runs: "page" or "attach"
    savePath,      \* args.savePath
    download,      \* the answer of the download call
    disk0,         \* the file system when the handler was invoked
    disk,          \* the file system
    downloadCalls, \* every download call issued, in order
    downloadError, \* the error caught by the download handler, if any
    downloadEnvelope, \* the value the download handler returned
    xpc,           \* position of the delete-wiki-page-file invocation
    deleteCalls,   \* every delete call issued, in order
    deleteError,   \* the error caught by delete-wiki-page-file, if any
    deleteEnvelope, \* the value delete-wiki-page-file returned
    wpc,           \* position of the update-wiki-page invocation
    wikiArgs,      \* its arguments
    wikiRequests,  \* every HTTP request of update-wiki-page, in order
    wikiError,     \* the error caught by update-wiki-page, if any
    wikiEnvelope,  \* the value update-wiki-page returned
    ipc,           \* position of each of two concurrent update-task invocations
    iargs,         \* the arguments of each
    iupdateParams, \* the local `updateParams` of each
    iresult,       \* the local `result` of each
    ierror,        \* the error each caught, if any
    ienvelope,     \* the value each returned
    icalls,        \* the requests each issued, in order
    iresponses,    \* the answers each received, in order
    iserver        \* the task as stored by the remote service they share

taskVars == <<pc, args, updateParams, result, error, envelope, server, calls, responses,
              inflight>>
uploadVars == <<upc, handler, apiToken, fileExists, requests, step1Response, httpCode,
                redirectUrl, response, uploadError, uploadEnvelope>>
createVars == <<cpc, createArgs, apiParams, createCalls, createError, createEnvelope>>
downloadVars == <<dpc, downloader, savePath, download, disk0, disk, downloadCalls,
                  downloadError, downloadEnvelope>>
deleteVars == <<xpc, deleteCalls, deleteError, deleteEnvelope>>
wikiVars == <<wpc, wikiArgs, wikiRequests, wikiError, wikiEnvelope>>
concurrentVars == <<ipc, iargs, iupdateParams, iresult, ierror, ienvelope, icalls, iresponses,
                    iserver>>
vars == <<taskVars, uploadVars, createVars, downloadVars, deleteVars, wikiVars, concurrentVars>>
notTaskVars == <<uploadVars, createVars, downloadVars, deleteVars, wikiVars, concurrentVars>>
notUploadVars == <<taskVars, createVars, downloadVars, deleteVars, wikiVars, concurrentVars>>
notCreateVars == <<taskVars, uploadVars, downloadVars, deleteVars, wikiVars, concurrentVars>>
notDownloadVars == <<taskVars, uploadVars, createVars, deleteVars, wikiVars, concurrentVars>>
notDeleteVars == <<taskVars, uploadVars, createVars, downloadVars, wikiVars, concurrentVars>>
notWikiVars == <<taskVars, uploadVars, createVars, downloadVars, deleteVars, concurrentVars>>
notConcurrentVars == <<taskVars, uploadVars, createVars, downloadVars, deleteVars, wikiVars>>

Call(op, arg) == [op |-> op, arg |-> arg]
Response(op, ok, value) == [op |-> op, ok |-> ok, value |-> value]

TaskInit ==
    /\ pc = "idle"
    /\ args = NoArgs
    /\ updateParams = EmptyObject
    /\ result = Undefined
    /\ error = Undefined
    /\ envelope = NoEnvelope
    /\ server = InitialTask
    /\ calls = <<>>
    /\ responses = <<>>
    /\ inflight = 0

UploadInit ==
    /\ upc = "idle"
    /\ handler = "wiki"
    /\ apiToken = Undefined
    /\ fileExists = FALSE
    /\ requests = <<>>
    /\ step1Response = Undefined
    /\ httpCode = Undefined
    /\ redirectUrl = Undefined
    /\ response = Undefined
    /\ uploadError = Undefined
    /\ uploadEnvelope = NoEnvelope

\* The tool is invoked; lines 40-56 build updateParams.
updateTaskHandler ==
    /\ pc = "idle"
    /\ \E a \in updateTaskSchema :
          /\ args' = a
          /\ updateParams' = BuildUpdateParams(a)
    /\ pc' = "step2"
    /\ UNCHANGED <<result, error, envelope, server, calls, responses, inflight, notTaskVars>>

\* Variant: the field patch is not awaited.
IssueNotAwaited(op, arg, next) ==
    /\ calls' = Append(calls, Call(op, arg))
    /\ inflight' = inflight + 1
    /\ responses' = responses
    /\ pc' = IF next = "awaitUpdateTask" THEN "step3" ELSE next

\* A call is issued and the handler suspends until it is answered.
Issue(op, arg, next) ==
    /\ calls' = Append(calls, Call(op, arg))
    /\ inflight' = inflight + 1
    /\ responses' = responses
    /\ pc' = next

\* Variant: the field patch is issued even when nothing was collected.
HasUpdateParamsAlways(p) == TRUE

\* Lines 59-62.
HasUpdateParams(p) == Cardinality(ObjectKeys(p)) > 0

Step2 ==
    /\ pc = "step2"
    /\ IF HasUpdateParams(updateParams)
       THEN Issue("updateTask", <<ProjectId, TaskId, updateParams>>, "awaitUpdateTask")
       ELSE /\ pc' = "step3"
            /\ UNCHANGED <<calls, responses, inflight>>
    /\ UNCHANGED <<args, updateParams, result, error, envelope, server, notTaskVars>>

\* The PUT is applied; api/projects.ts hands the handler either the updated
\* task or an empty result.
UpdateTaskOk ==
    /\ pc = "awaitUpdateTask"
    /\ server' = ApplyPut(server, updateParams)
    /\ \E r \in {Undefined, Some(server')} :
          /\ result' = r
          /\ responses' = Append(responses, Response("updateTask", TRUE, r))
    /\ inflight' = inflight - 1
    /\ pc' = "step3"
    /\ UNCHANGED <<args, updateParams, error, envelope, calls, notTaskVars>>

\* Variant: the rejected call is recorded but the sequence goes on.
FailContinue(op) ==
    /\ error' = Some(ApiError(op))
    /\ responses' = Append(responses, Response(op, FALSE, Undefined))
    /\ inflight' = inflight - 1
    /\ pc' = "step5"

\* A rejected await leaves the try block for the catch block (lines 39, 87).
Fail(op) ==
    /\ error' = Some(ApiError(op))
    /\ responses' = Append(responses, Response(op, FALSE, Undefined))
    /\ inflight' = inflight - 1
    /\ pc' = "catch"

UpdateTaskFail ==
    /\ pc = "awaitUpdateTask"
    /\ Fail("updateTask")
    /\ UNCHANGED <<args, updateParams, result, envelope, server, calls, notTaskVars>>

\* Variant: the workflow PUT is an alternative to the field patch.
Step3UnlessPatched ==
    /\ pc = "step3"
    /\ IF IsDefined(args.workflowId) /\ ~HasUpdateParams(updateParams)
       THEN Issue("setTaskWorkflow", <<ProjectId, TaskId, Val(args.workflowId)>>, "awaitSetTaskWorkflow")
       ELSE /\ pc' = "step4"
            /\ UNCHANGED <<calls, responses, inflight>>
    /\ UNCHANGED <<args, updateParams, result, error, envelope, server, notTaskVars>>

\* Lines 64-67.
Step3 ==
    /\ pc = "step3"
    /\ IF IsDefined(args.workflowId)
       THEN Issue("setTaskWorkflow", <<ProjectId, TaskId, Val(args.workflowId)>>, "awaitSetTaskWorkflow")
       ELSE /\ pc' = "step4"
            /\ UNCHANGED <<calls, responses, inflight>>
    /\ UNCHANGED <<args, updateParams, result, error, envelope, server, notTaskVars>>

SetTaskWorkflowOk ==
    /\ pc = "awaitSetTaskWorkflow"
    /\ server' = ApplyWorkflow(server, Val(args.workflowId))
    /\ responses' = Append(responses, Response("setTaskWorkflow", TRUE, Undefined))
    /\ inflight' = inflight - 1
    /\ pc' = "step4"
    /\ UNCHANGED <<args, updateParams, result, error, envelope, calls, notTaskVars>>

SetTaskWorkflowFail ==
    /\ pc = "awaitSetTaskWorkflow"
    /\ Fail("setTaskWorkflow")
    /\ UNCHANGED <<args, updateParams, result, envelope, server, calls, notTaskVars>>

\* Lines 69-72.
Step4 ==
    /\ pc = "step4"
    /\ IF IsDefined(args.parentPostId)
       THEN Issue("setParentPost", <<ProjectId, TaskId, Val(args.parentPostId)>>, "awaitSetParentPost")
       ELSE /\ pc' = "step5"
            /\ UNCHANGED <<calls, responses, inflight>>
    /\ UNCHANGED <<args, updateParams, result, error, envelope, server, notTaskVars>>

SetParentPostOk ==
    /\ pc = "awaitSetParentPost"
    /\ server' = ApplyParent(server, Val(args.parentPostId))
    /\ responses' = Append(responses, Response("setParentPost", TRUE, Undefined))
    /\ inflight' = inflight - 1
    /\ pc' = "step5"
    /\ UNCHANGED <<args, updateParams, result, error, envelope, calls, notTaskVars>>

SetParentPostFail ==
    /\ pc = "awaitSetParentPost"
    /\ Fail("setParentPost")
    /\ UNCHANGED <<args, updateParams, result, envelope, server, calls, notTaskVars>>

\* Lines 74-77: if (!result) result = await getTaskDetails(...)
NeedsFetch(r) == ~IsDefined(r)

Step5 ==
    /\ pc = "step5"
    /\ IF NeedsFetch(result)
       THEN Issue("getTaskDetails", <<TaskId, ProjectId>>, "awaitGetTaskDetails")
       ELSE /\ pc' = "return"
            /\ UNCHANGED <<calls, responses, inflight>>
    /\ UNCHANGED <<args, updateParams, result, error, envelope, server, notTaskVars>>

GetTaskDetailsOk ==
    /\ pc = "awaitGetTaskDetails"
    /\ result' = Some(server)
    /\ responses' = Append(responses, Response("getTaskDetails", TRUE, Some(server)))
    /\ inflight' = inflight - 1
    /\ pc' = "return"
    /\ UNCHANGED <<args, updateParams, error, envelope, server, calls, notTaskVars>>

\* Variant: a rejected fetch is tried again.
GetTaskDetailsFailRetried ==
    /\ pc = "awaitGetTaskDetails"
    /\ responses' = Append(responses, Response("getTaskDetails", FALSE, Undefined))
    /\ inflight' = inflight - 1
    /\ pc' = "step5"
    /\ UNCHANGED <<args, updateParams, result, error, envelope, server, calls, notTaskVars>>

GetTaskDetailsFail ==
    /\ pc = "awaitGetTaskDetails"
    /\ Fail("getTaskDetails")
    /\ UNCHANGED <<args, updateParams, result, envelope, server, calls, notTaskVars>>

\* Lines 79-86.
ReturnResult ==
    /\ pc = "return"
    /\ envelope' = SuccessEnvelope(Val(result))
    /\ pc' = "done"
    /\ UNCHANGED <<args, updateParams, result, error, server, calls, responses, inflight, notTaskVars>>

\* Lines 87-97.
CatchError ==
    /\ pc = "catch"
    /\ envelope' = ErrorEnvelope(Val(error))
    /\ pc' = "done"
    /\ UNCHANGED <<args, updateParams, result, error, server, calls, responses, inflight, notTaskVars>>

NextUpdateTask ==
    \/ updateTaskHandler
    \/ Step2
    \/ UpdateTaskOk
    \/ UpdateTaskFail
    \/ Step3
    \/ SetTaskWorkflowOk
    \/ SetTaskWorkflowFail
    \/ Step4
    \/ SetParentPostOk
    \/ SetParentPostFail
    \/ Step5
    \/ GetTaskDetailsOk
    \/ GetTaskDetailsFail
    \/ ReturnResult
    \/ CatchError


\* ------------------------------------------------------------------------
\* Upload handlers: strings, curl output and the response envelope
\* ------------------------------------------------------------------------
\* A string is the sequence of its pieces; NL is the newline character and
\* the empty string is the empty sequence.
NL == "\n"
Str(s) == IF s = "" THEN <<>> ELSE <<s>>

RECURSIVE TrimStart(_)
TrimStart(s) == IF Len(s) > 0 /\ Head(s) = NL THEN TrimStart(Tail(s)) ELSE s

RECURSIVE TrimEnd(_)
TrimEnd(s) ==
    IF Len(s) > 0 /\ s[Len(s)] = NL THEN TrimEnd(SubSeq(s, 1, Len(s) - 1)) ELSE s

\* String.prototype.trim
Trim(s) == TrimEnd(TrimStart(s))

\* The text of one line (a line of the write-out format holds one piece).
JoinLine(l) == IF Len(l) = 0 THEN "" ELSE l[1]

RECURSIVE SplitFrom(_, _)
SplitFrom(s, cur) ==
    IF Len(s) = 0 THEN <<JoinLine(cur)>>
    ELSE IF Head(s) = NL THEN <<JoinLine(cur)>> \o SplitFrom(Tail(s), <<>>)
    ELSE SplitFrom(Tail(s), Append(cur, Head(s)))

\* String.prototype.split('\n')
Split(s) == SplitFrom(s, <<>>)

\* Array index access: out of range reads undefined.
At(array, i) == IF i >= 0 /\ i < Len(array) THEN Some(array[i + 1]) ELSE Undefined

TruthyString(o) == IsDefined(o) /\ Val(o) # ""
TruthyFlag(o) == IsDefined(o) /\ Val(o) = TRUE
TemplateString(o) == IF IsDefined(o) THEN Val(o) ELSE "undefined"

\* response.header?.field
OptionalChain(header, field) == IF IsDefined(header) THEN Val(header)[field] ELSE Undefined

Error(message) == [message |-> message]

WikiId == "123456"
PageId == "789012"
FilePath == <<"Users", "nhn", "report.pdf">>
BaseUrl == "https://api.dooray.com"
Tokens == {Undefined, Some(""), Some("token")}
Statuses == {"200", "201", "307", "302", "500"}
RedirectTargets == {"", "https://file.example/upload"}
ResultMessages == {"", "quota exceeded"}
Headers == Optional([isSuccessful : Optional(BOOLEAN), resultMessage : Optional(ResultMessages)])
Results ==
    {[id |-> "f1", attachFileId |-> "af1", name |-> n, mimeType |-> "application/pdf",
      size |-> 10] : n \in Optional({"server.pdf"})}
Envelopes == [header : Headers, result : Optional(Results)]

\* path.basename
basename(path) == path[Len(path)]

\* curl -s -o /dev/null -w '\n%{http_code}\n%{redirect_url}': what the first
\* command prints for a response with the given status and redirect target.
curlWriteOut(status, redirect) == <<NL>> \o Str(status) \o <<NL>> \o Str(redirect)

CurlCommand(url, token, writeOut) ==
    [url |-> url, auth |-> token, form |-> [type |-> "general", file |-> FilePath],
     writeOut |-> writeOut]

\* --- upload-wiki-file.ts ---
uploadWikiFileApiUrl == <<BaseUrl, "/wiki/v1/wikis/", WikiId, "/files">>

uploadWikiFilePrecheck(token, exists) ==
    IF ~TruthyString(token)
    THEN Some(Error(<<"DOORAY_API_TOKEN environment variable is required">>))
    ELSE IF ~exists THEN Some(Error(<<"File not found: ", FilePath>>))
    ELSE Undefined

uploadWikiFileParse(stdout) ==
    LET step1Lines == Split(Trim(stdout))
    IN  [httpCode |-> At(step1Lines, Len(step1Lines) - 2),
         redirectUrl |-> At(step1Lines, Len(step1Lines) - 1)]

\* Variant: every status that is not a followed redirect is uploaded directly.
uploadWikiFileBranchNoElse(code, redirect) ==
    IF code = Some("307") /\ TruthyString(redirect) THEN "redirect" ELSE "direct"

\* Variant: || in place of && in the redirect test.
uploadWikiFileBranchOr(code, redirect) ==
    IF code = Some("307") \/ TruthyString(redirect) THEN "redirect"
    ELSE IF code = Some("200") \/ code = Some("201") THEN "direct"
    ELSE "unexpected"

uploadWikiFileBranch(code, redirect) ==
    IF code = Some("307") /\ TruthyString(redirect) THEN "redirect"
    ELSE IF code = Some("200") \/ code = Some("201") THEN "direct"
    ELSE "unexpected"

\* Variant: the envelope's header is not inspected.
uploadWikiFileStep2Unchecked(resp) == [error |-> Undefined, result |-> resp.result]

uploadWikiFileStep2(resp) ==
    IF ~TruthyFlag(OptionalChain(resp.header, "isSuccessful"))
    THEN [error |-> Some(Error(
                      IF TruthyString(OptionalChain(resp.header, "resultMessage"))
                      THEN <<Val(OptionalChain(resp.header, "resultMessage"))>>
                      ELSE <<"Upload failed">>)),
          result |-> Undefined]
    ELSE [error |-> Undefined, result |-> resp.result]

uploadWikiFileDirect(resp) ==
    IF ~TruthyFlag(OptionalChain(resp.header, "isSuccessful"))
    THEN [error |-> Some(Error(
                      IF TruthyString(OptionalChain(resp.header, "resultMessage"))
                      THEN <<Val(OptionalChain(resp.header, "resultMessage"))>>
                      ELSE <<"Upload failed">>)),
          result |-> Undefined]
    ELSE [error |-> Undefined, result |-> resp.result]

UploadedName(res, fileName) == IF TruthyString(res.name) THEN Val(res.name) ELSE fileName

uploadWikiFileReturn(res, fileName) ==
    IF ~IsDefined(res)
    THEN [error |-> Some(Error(<<"Cannot read properties of undefined">>)),
          envelope |-> NoEnvelope]
    ELSE [error |-> Undefined,
          envelope |-> SuccessEnvelope(
              [success |-> TRUE,
               fileId |-> Val(res).id,
               attachFileId |-> Val(res).attachFileId,
               fileName |-> UploadedName(Val(res), fileName),
               mimeType |-> Val(res).mimeType,
               size |-> Val(res).size,
               message |-> <<"File \"", UploadedName(Val(res), fileName),
                             "\" successfully uploaded to wiki. Use attachFileId when creating a wiki page with attachments.">>])]

\* Variant: the file is looked for before the token.
uploadWikiPageFilePrecheckFileFirst(token, exists) ==
    IF ~exists THEN Some(Error(<<"File not found: ", FilePath>>))
    ELSE IF ~TruthyString(token)
    THEN Some(Error(<<"DOORAY_API_TOKEN environment variable is required">>))
    ELSE Undefined

\* --- upload-wiki-page-file.ts ---
uploadWikiPageFileApiUrl == <<BaseUrl, "/wiki/v1/wikis/", WikiId, "/pages/", PageId, "/files">>

uploadWikiPageFilePrecheck(token, exists) ==
    IF ~TruthyString(token)
    THEN Some(Error(<<"DOORAY_API_TOKEN environment variable is required">>))
    ELSE IF ~exists THEN Some(Error(<<"File not found: ", FilePath>>))
    ELSE Undefined

uploadWikiPageFileParse(stdout) ==
    LET step1Lines == Split(Trim(stdout))
    IN  [httpCode |-> At(step1Lines, Len(step1Lines) - 2),
         redirectUrl |-> At(step1Lines, Len(step1Lines) - 1)]

\* Variant: the page handler follows any redirect status.
uploadWikiPageFileBranchAnyRedirect(code, redirect) ==
    IF code \in {Some("307"), Some("302")} /\ TruthyString(redirect) THEN "redirect"
    ELSE IF code = Some("200") \/ code = Some("201") THEN "direct"
    ELSE "unexpected"

uploadWikiPageFileBranch(code, redirect) ==
    IF code = Some("307") /\ TruthyString(redirect) THEN "redirect"
    ELSE IF code = Some("200") \/ code = Some("201") THEN "direct"
    ELSE "unexpected"

uploadWikiPageFileStep2(resp) ==
    IF ~TruthyFlag(OptionalChain(resp.header, "isSuccessful"))
    THEN [error |-> Some(Error(
                      IF TruthyString(OptionalChain(resp.header, "resultMessage"))
                      THEN <<Val(OptionalChain(resp.header, "resultMessage"))>>
                      ELSE <<"Upload failed">>)),
          result |-> Undefined]
    ELSE [error |-> Undefined, result |-> resp.result]

uploadWikiPageFileDirect(resp) ==
    IF ~TruthyFlag(OptionalChain(resp.header, "isSuccessful"))
    THEN [error |-> Some(Error(
                      IF TruthyString(OptionalChain(resp.header, "resultMessage"))
                      THEN <<Val(OptionalChain(resp.header, "resultMessage"))>>
                      ELSE <<"Upload failed">>)),
          result |-> Undefined]
    ELSE [error |-> Undefined, result |-> resp.result]

uploadWikiPageFileReturn(res, fileName) ==
    IF ~IsDefined(res)
    THEN [error |-> Some(Error(<<"Cannot read properties of undefined">>)),
          envelope |-> NoEnvelope]
    ELSE [error |-> Undefined,
          envelope |-> SuccessEnvelope(
              [success |-> TRUE,
               fileId |-> Val(res).id,
               attachFileId |-> Val(res).attachFileId,
               fileName |-> UploadedName(Val(res), fileName),
               mimeType |-> Val(res).mimeType,
               size |-> Val(res).size,
               message |-> <<"File \"", UploadedName(Val(res), fileName),
                             "\" successfully uploaded to wiki page.">>])]

\* --- dispatch on the handler that runs ---
ApiUrl(h) == IF h = "wiki" THEN uploadWikiFileApiUrl ELSE uploadWikiPageFileApiUrl
Precheck(h, token, exists) ==
    IF h = "wiki" THEN uploadWikiFilePrecheck(token, exists)
    ELSE uploadWikiPageFilePrecheck(token, exists)
ParseStep1(h, stdout) ==
    IF h = "wiki" THEN uploadWikiFileParse(stdout) ELSE uploadWikiPageFileParse(stdout)
Branch(h, code, redirect) ==
    IF h = "wiki" THEN uploadWikiFileBranch(code, redirect)
    ELSE uploadWikiPageFileBranch(code, redirect)
CheckStep2(h, resp) ==
    IF h = "wiki" THEN uploadWikiFileStep2(resp) ELSE uploadWikiPageFileStep2(resp)
CheckDirect(h, resp) ==
    IF h = "wiki" THEN uploadWikiFileDirect(resp) ELSE uploadWikiPageFileDirect(resp)
ReturnUpload(h, res, fileName) ==
    IF h = "wiki" THEN uploadWikiFileReturn(res, fileName)
    ELSE uploadWikiPageFileReturn(res, fileName)

\* ------------------------------------------------------------------------
\* Upload handlers: the steps of one invocation
\* ------------------------------------------------------------------------
\* The tool is invoked: token and file checks, then the first curl command.
uploadHandler ==
    /\ upc = "idle"
    /\ \E h \in {"wiki", "page"}, token \in Tokens, exists \in BOOLEAN :
          /\ handler' = h
          /\ apiToken' = token
          /\ fileExists' = exists
          /\ IF IsDefined(Precheck(h, token, exists))
             THEN /\ uploadError' = Precheck(h, token, exists)
                  /\ upc' = "catch"
                  /\ requests' = requests
             ELSE /\ requests' = Append(requests, CurlCommand(ApiUrl(h), Val(token), TRUE))
                  /\ upc' = "awaitStep1"
                  /\ uploadError' = uploadError
    /\ UNCHANGED <<step1Response, httpCode, redirectUrl, response, uploadEnvelope, notUploadVars>>

\* Variant: after a redirect the file is posted to the original endpoint again.
Step1DoneSameEndpoint ==
    /\ upc = "awaitStep1"
    /\ \E status \in Statuses, redirect \in RedirectTargets :
          LET parsed == ParseStep1(handler, curlWriteOut(status, redirect))
              branch == Branch(handler, parsed.httpCode, parsed.redirectUrl)
          IN  /\ step1Response' = Some([status |-> status, redirect |-> redirect])
              /\ httpCode' = parsed.httpCode
              /\ redirectUrl' = parsed.redirectUrl
              /\ CASE branch = "redirect" ->
                        /\ requests' = Append(requests,
                              CurlCommand(ApiUrl(handler), Val(apiToken), FALSE))
                        /\ upc' = "awaitStep2"
                        /\ uploadError' = uploadError
                   [] branch = "direct" ->
                        /\ requests' = Append(requests,
                              CurlCommand(ApiUrl(handler), Val(apiToken), FALSE))
                        /\ upc' = "awaitDirect"
                        /\ uploadError' = uploadError
                   [] OTHER ->
                        /\ uploadError' = Some(Error(<<"Unexpected HTTP status: ",
                                                       TemplateString(parsed.httpCode)>>))
                        /\ upc' = "catch"
                        /\ requests' = requests
    /\ UNCHANGED <<handler, apiToken, fileExists, response, uploadEnvelope, notUploadVars>>

\* The first command ends: its output is parsed and the branch is taken.
\* The environment may print any status with any redirect target.
Step1Done ==
    /\ upc = "awaitStep1"
    /\ \E status \in Statuses, redirect \in RedirectTargets :
          LET parsed == ParseStep1(handler, curlWriteOut(status, redirect))
              branch == Branch(handler, parsed.httpCode, parsed.redirectUrl)
          IN  /\ step1Response' = Some([status |-> status, redirect |-> redirect])
              /\ httpCode' = parsed.httpCode
              /\ redirectUrl' = parsed.redirectUrl
              /\ CASE branch = "redirect" ->
                        /\ requests' = Append(requests,
                              CurlCommand(<<Val(parsed.redirectUrl)>>, Val(apiToken), FALSE))
                        /\ upc' = "awaitStep2"
                        /\ uploadError' = uploadError
                   [] branch = "direct" ->
                        /\ requests' = Append(requests,
                              CurlCommand(ApiUrl(handler), Val(apiToken), FALSE))
                        /\ upc' = "awaitDirect"
                        /\ uploadError' = uploadError
                   [] OTHER ->
                        /\ uploadError' = Some(Error(<<"Unexpected HTTP status: ",
                                                       TemplateString(parsed.httpCode)>>))
                        /\ upc' = "catch"
                        /\ requests' = requests
    /\ UNCHANGED <<handler, apiToken, fileExists, response, uploadEnvelope, notUploadVars>>

\* The first command exits non-zero: execAsync rejects.
Step1Fail ==
    /\ upc = "awaitStep1"
    /\ uploadError' = Some(Error(<<"Command failed">>))
    /\ upc' = "catch"
    /\ UNCHANGED <<handler, apiToken, fileExists, requests, step1Response, httpCode,
                   redirectUrl, response, uploadEnvelope, notUploadVars>>

Finish(outcome) ==
    IF IsDefined(outcome.error)
    THEN /\ uploadError' = outcome.error
         /\ upc' = "catch"
         /\ uploadEnvelope' = uploadEnvelope
    ELSE LET ret == ReturnUpload(handler, outcome.result, basename(FilePath))
         IN  IF IsDefined(ret.error)
             THEN /\ uploadError' = ret.error
                  /\ upc' = "catch"
                  /\ uploadEnvelope' = uploadEnvelope
             ELSE /\ uploadEnvelope' = ret.envelope
                  /\ upc' = "done"
                  /\ uploadError' = uploadError

\* The upload to the redirect target ends with a JSON envelope.
Step2Done ==
    /\ upc = "awaitStep2"
    /\ \E resp \in Envelopes :
          /\ response' = Some(resp)
          /\ Finish(CheckStep2(handler, resp))
    /\ UNCHANGED <<handler, apiToken, fileExists, requests, step1Response, httpCode,
                   redirectUrl, notUploadVars>>

\* The direct upload ends with a JSON envelope.
DirectDone ==
    /\ upc = "awaitDirect"
    /\ \E resp \in Envelopes :
          /\ response' = Some(resp)
          /\ Finish(CheckDirect(handler, resp))
    /\ UNCHANGED <<handler, apiToken, fileExists, requests, step1Response, httpCode,
                   redirectUrl, notUploadVars>>

\* The second command exits non-zero or prints something that is not JSON.
SecondFail ==
    /\ upc \in {"awaitStep2", "awaitDirect"}
    /\ \E m \in {"Command failed", "Unexpected token in JSON"} :
          uploadError' = Some(Error(<<m>>))
    /\ upc' = "catch"
    /\ UNCHANGED <<handler, apiToken, fileExists, requests, step1Response, httpCode,
                   redirectUrl, response, uploadEnvelope, notUploadVars>>

\* The catch block.
UploadCatch ==
    /\ upc = "catch"
    /\ uploadEnvelope' = ErrorEnvelope(Val(uploadError))
    /\ upc' = "done"
    /\ UNCHANGED <<handler, apiToken, fileExists, requests, step1Response, httpCode,
                   redirectUrl, response, uploadError, notUploadVars>>

NextUpload ==
    \/ uploadHandler
    \/ Step1Done
    \/ Step1Fail
    \/ Step2Done
    \/ DirectDone
    \/ SecondFail
    \/ UploadCatch


\* ------------------------------------------------------------------------
\* create-task (tools/projects/create-task.ts)
\* ------------------------------------------------------------------------
CreatePriorities == {"high", "none"}

createTaskSchema ==
    [projectId : {ProjectId},
     parentPostId : Optional(ParentPostIds),
     isDraft : Optional(BOOLEAN),
     subject : {"s1"},
     body : Optional(Bodies),
     assignees : Optional(SeqsUpTo(MemberValues, MaxMembers)),
     cc : Optional(SeqsUpTo(MemberValues, MaxMembers)),
     dueDate : Optional(DueDates),
     milestoneId : Optional({"m1"}),
     tagIds : Optional(SeqsUpTo(TagIdValues, MaxTags)),
     priority : Optional(CreatePriorities)]

NoCreateArgs ==
    [projectId |-> ProjectId, parentPostId |-> Undefined, isDraft |-> Undefined,
     subject |-> "s1", body |-> Undefined, assignees |-> Undefined, cc |-> Undefined,
     dueDate |-> Undefined, milestoneId |-> Undefined, tagIds |-> Undefined,
     priority |-> Undefined]

\* Variant: isDraft is tested for presence instead of truthiness.
IsDraftIfPresent(a) == IsDefined(a.isDraft)

\* Line 39: const isDraft = args.isDraft || false
IsDraft(a) == TruthyFlag(a.isDraft)

\* Lines 41-54: every argument is passed through as it came.
BuildApiParams(a) ==
    [projectId |-> a.projectId,
     parentPostId |-> a.parentPostId,
     subject |-> a.subject,
     body |-> a.body,
     users |-> [to |-> transformMembers(a.assignees), cc |-> transformMembers(a.cc)],
     dueDate |-> a.dueDate,
     milestoneId |-> a.milestoneId,
     tagIds |-> a.tagIds,
     priority |-> a.priority]

\* What the service answers to the two creation calls.
DraftCreated == [id |-> "d1", url |-> "https://nhnent.dooray.com/task/drafts/d1"]
TaskCreated(params) ==
    [id |-> "3",
     subject |-> params.subject,
     users |-> params.users,
     priority |-> IF IsDefined(params.priority) THEN Val(params.priority) ELSE "none"]

DraftEnvelope(res) ==
    SuccessEnvelope(
        [id |-> res.id,
         url |-> res.url,
         message |-> "Draft task created successfully. Open the URL in your browser to continue editing."])

CreateInit ==
    /\ cpc = "idle"
    /\ createArgs = NoCreateArgs
    /\ apiParams = Undefined
    /\ createCalls = <<>>
    /\ createError = Undefined
    /\ createEnvelope = NoEnvelope

\* The tool is invoked: lines 39-54 build apiParams, line 56 picks the call.
createTaskHandler ==
    /\ cpc = "idle"
    /\ \E a \in createTaskSchema :
          /\ createArgs' = a
          /\ apiParams' = Some(BuildApiParams(a))
          /\ IF IsDraft(a)
             THEN /\ createCalls' = Append(createCalls, Call("createDraftTask", BuildApiParams(a)))
                  /\ cpc' = "awaitCreateDraftTask"
             ELSE /\ createCalls' = Append(createCalls, Call("createTask", BuildApiParams(a)))
                  /\ cpc' = "awaitCreateTask"
    /\ UNCHANGED <<createError, createEnvelope, notCreateVars>>

\* Lines 58-71.
CreateDraftTaskOk ==
    /\ cpc = "awaitCreateDraftTask"
    /\ createEnvelope' = DraftEnvelope(DraftCreated)
    /\ cpc' = "done"
    /\ UNCHANGED <<createArgs, apiParams, createCalls, createError, notCreateVars>>

\* Lines 74-83.
CreateTaskOk ==
    /\ cpc = "awaitCreateTask"
    /\ createEnvelope' = SuccessEnvelope(TaskCreated(Val(apiParams)))
    /\ cpc' = "done"
    /\ UNCHANGED <<createArgs, apiParams, createCalls, createError, notCreateVars>>

\* Either creation call is rejected.
CreateFail ==
    /\ cpc \in {"awaitCreateDraftTask", "awaitCreateTask"}
    /\ createError' = Some(ApiError(createCalls[Len(createCalls)].op))
    /\ cpc' = "catch"
    /\ UNCHANGED <<createArgs, apiParams, createCalls, createEnvelope, notCreateVars>>

\* Lines 85-95.
CreateCatch ==
    /\ cpc = "catch"
    /\ createEnvelope' = ErrorEnvelope(Val(createError))
    /\ cpc' = "done"
    /\ UNCHANGED <<createArgs, apiParams, createCalls, createError, notCreateVars>>

NextCreateTask ==
    \/ createTaskHandler
    \/ CreateDraftTaskOk
    \/ CreateTaskOk
    \/ CreateFail
    \/ CreateCatch

\* ------------------------------------------------------------------------
\* Download handlers: header text, paths and the file system
\* ------------------------------------------------------------------------
\* Header text and paths are sequences of pieces: the characters the code
\* looks at (; = quotes newline / and percent escapes) are pieces of their
\* own, every other piece is a run of ordinary characters.
Semicolon == ";"
Equals == "="
DoubleQuote == "\""
SingleQuote == "'"
Slash == "/"
Quotes == {DoubleQuote, SingleQuote}
PercentValid == {"%41", "%2F", "%22"}
PercentInvalid == {"%zz"}

\* First position at or after i holding a piece of S, Len(s) + 1 if none.
RECURSIVE IndexOfAny(_, _, _)
IndexOfAny(s, S, i) ==
    IF i > Len(s) THEN Len(s) + 1
    ELSE IF s[i] \in S THEN i
    ELSE IndexOfAny(s, S, i + 1)

\* ((['"]).*?\2|[^;\n]*) tried at position k: the first alternative needs an
\* opening quote and the same quote later on the same line.
CaptureAt(s, k) ==
    LET close == IF k <= Len(s) /\ s[k] \in Quotes
                 THEN IndexOfAny(s, {s[k], NL}, k + 1)
                 ELSE Len(s) + 1
    IN  IF close <= Len(s) /\ s[close] # NL
        THEN SubSeq(s, k, close)
        ELSE SubSeq(s, k, IndexOfAny(s, {Semicolon, NL}, k) - 1)

\* /filename[^;=\n]*=(...)/ tried at position i: capture group 1, if it matches.
MatchAt(s, i) ==
    LET stop == IndexOfAny(s, {Semicolon, Equals, NL}, i + 1)
    IN  IF s[i] = "filename" /\ stop <= Len(s) /\ s[stop] = Equals
        THEN Some(CaptureAt(s, stop + 1))
        ELSE Undefined

\* String.prototype.match: the leftmost position where the pattern matches.
RECURSIVE MatchFrom(_, _)
MatchFrom(s, i) ==
    IF i > Len(s) THEN Undefined
    ELSE IF IsDefined(MatchAt(s, i)) THEN MatchAt(s, i)
    ELSE MatchFrom(s, i + 1)

FilenameMatch(s) == MatchFrom(s, 1)

\* .replace(/['"]/g, '')
RECURSIVE StripQuotes(_)
StripQuotes(s) ==
    IF Len(s) = 0 THEN <<>>
    ELSE IF Head(s) \in Quotes THEN StripQuotes(Tail(s))
    ELSE <<Head(s)>> \o StripQuotes(Tail(s))

DecodeEscape(piece) ==
    IF piece = "%41" THEN "A"
    ELSE IF piece = "%2F" THEN Slash
    ELSE IF piece = "%22" THEN DoubleQuote
    ELSE piece

\* Variant: each escape is decoded on its own, malformed ones are skipped.
DecodePiecewise(s) == [i \in 1..Len(s) |-> DecodeEscape(s[i])]

\* decodeURIComponent inside try/catch: a malformed escape throws and the
\* text is kept as it was.
DecodeOrKeep(s) ==
    IF \E i \in 1..Len(s) : s[i] \in PercentInvalid
    THEN s
    ELSE [i \in 1..Len(s) |-> DecodeEscape(s[i])]

\* Variant: a missing header yields the empty name.
extractFilenameEmpty(contentDisposition) ==
    IF ~IsDefined(contentDisposition) \/ Val(contentDisposition) = <<>> THEN Some(<<>>)
    ELSE LET filenameMatch == FilenameMatch(Val(contentDisposition))
         IN  IF IsDefined(filenameMatch)
             THEN Some(DecodeOrKeep(StripQuotes(Val(filenameMatch))))
             ELSE Undefined

\* download-wiki-page-file.ts, lines 24-38
extractFilename(contentDisposition) ==
    IF ~IsDefined(contentDisposition) \/ Val(contentDisposition) = <<>> THEN Undefined
    ELSE LET filenameMatch == FilenameMatch(Val(contentDisposition))
         IN  IF IsDefined(filenameMatch)
             THEN Some(DecodeOrKeep(StripQuotes(Val(filenameMatch))))
             ELSE Undefined

\* Variant: the quotes stay in the name.
extractFilenameAttachQuoted(contentDisposition) ==
    IF ~IsDefined(contentDisposition) \/ Val(contentDisposition) = <<>> THEN Undefined
    ELSE LET filenameMatch == FilenameMatch(Val(contentDisposition))
         IN  IF IsDefined(filenameMatch)
             THEN Some(DecodeOrKeep(Val(filenameMatch)))
             ELSE Undefined

\* download-wiki-attach-file.ts, lines 63-77
extractFilenameAttach(contentDisposition) ==
    IF ~IsDefined(contentDisposition) \/ Val(contentDisposition) = <<>> THEN Undefined
    ELSE LET filenameMatch == FilenameMatch(Val(contentDisposition))
         IN  IF IsDefined(filenameMatch)
             THEN Some(DecodeOrKeep(StripQuotes(Val(filenameMatch))))
             ELSE Undefined

\* String.prototype.endsWith('/')
EndsWithSlash(p) == Len(p) > 0 /\ p[Len(p)] = Slash

\* The segments between the separators of a path, empty ones dropped.
RECURSIVE SegmentsFrom(_, _)
SegmentsFrom(p, cur) ==
    IF Len(p) = 0 THEN (IF cur = <<>> THEN <<>> ELSE <<cur>>)
    ELSE IF Head(p) = Slash
         THEN (IF cur = <<>> THEN <<>> ELSE <<cur>>) \o SegmentsFrom(Tail(p), <<>>)
         ELSE SegmentsFrom(Tail(p), Append(cur, Head(p)))

Segments(p) == SegmentsFrom(p, <<>>)

Dot == <<".">>
DotDot == <<"..">>

\* normalizeString of node's path module: "." is dropped, ".." removes the
\* segment before it, stays in a relative path that has none, and is dropped
\* at the root.
RECURSIVE NormalizeSegments(_, _, _)
NormalizeSegments(segs, stack, isAbsolute) ==
    IF Len(segs) = 0 THEN stack
    ELSE IF Head(segs) = Dot THEN NormalizeSegments(Tail(segs), stack, isAbsolute)
    ELSE IF Head(segs) = DotDot
         THEN IF Len(stack) > 0 /\ stack[Len(stack)] # DotDot
              THEN NormalizeSegments(Tail(segs), SubSeq(stack, 1, Len(stack) - 1), isAbsolute)
              ELSE IF isAbsolute
                   THEN NormalizeSegments(Tail(segs), stack, isAbsolute)
                   ELSE NormalizeSegments(Tail(segs), Append(stack, DotDot), isAbsolute)
    ELSE NormalizeSegments(Tail(segs), Append(stack, Head(segs)), isAbsolute)

RECURSIVE JoinSegments(_)
JoinSegments(segs) ==
    IF Len(segs) = 0 THEN <<>>
    ELSE IF Len(segs) = 1 THEN segs[1]
    ELSE segs[1] \o <<Slash>> \o JoinSegments(Tail(segs))

IsAbsolute(p) == Len(p) > 0 /\ p[1] = Slash

\* path.normalize (posix)
Normalize(p) ==
    LET isAbsolute == IsAbsolute(p)
        body == JoinSegments(NormalizeSegments(Segments(p), <<>>, isAbsolute))
        named == IF body = <<>> /\ ~isAbsolute THEN Dot ELSE body
        closed == IF named # <<>> /\ EndsWithSlash(p) THEN Append(named, Slash) ELSE named
    IN  IF isAbsolute THEN <<Slash>> \o closed ELSE closed

\* path.join of two non-empty paths
PathJoin(a, b) == Normalize(a \o <<Slash>> \o b)

\* Position of the last separator that has a name after it, 0 if there is
\* none after the first piece.
RECURSIVE LastSeparator(_, _, _)
LastSeparator(p, i, matchedSlash) ==
    IF i < 2 THEN 0
    ELSE IF p[i] = Slash
         THEN IF ~matchedSlash THEN i ELSE LastSeparator(p, i - 1, matchedSlash)
         ELSE LastSeparator(p, i - 1, FALSE)

\* path.dirname (posix)
Dirname(p) ==
    LET end == LastSeparator(p, Len(p), TRUE)
    IN  IF Len(p) = 0 THEN Dot
        ELSE IF end = 0 THEN (IF IsAbsolute(p) THEN <<Slash>> ELSE Dot)
        ELSE IF IsAbsolute(p) /\ end = 2 THEN <<Slash, Slash>>
        ELSE SubSeq(p, 1, end - 1)

\* The working directory of the server process.
Cwd == <<<<"srv">>>>

\* The absolute location a path names, as its list of segments.
Resolve(p) ==
    IF IsAbsolute(p)
    THEN NormalizeSegments(Segments(p), <<>>, TRUE)
    ELSE NormalizeSegments(Cwd \o Segments(p), <<>>, TRUE)

Parent(location) == SubSeq(location, 1, Len(location) - 1)
Prefixes(location) == {SubSeq(location, 1, k) : k \in 0..Len(location)}

\* A file system: the directories that exist and the content of every file.
Root == <<>>
Tmp == <<<<"tmp">>>>
Dl == <<<<"tmp">>, <<"dl">>>>
NoFiles == [f \in {} |-> f]
Disk(dirs, files) == [dirs |-> dirs, files |-> files]
EmptyDisk == Disk({Root, Tmp, Cwd}, NoFiles)
Disks ==
    {EmptyDisk,
     Disk({Root, Tmp, Cwd, Dl}, NoFiles),
     Disk({Root, Tmp, Cwd}, Dl :> <<"old">>)}

FsOk(d) == [ok |-> TRUE, disk |-> d]
FsThrows(d, code) == [ok |-> FALSE, disk |-> d, error |-> Error(<<code>>)]

\* fs.existsSync
existsSync(d, p) ==
    IF EndsWithSlash(p)
    THEN Resolve(p) \in d.dirs
    ELSE Resolve(p) \in d.dirs \cup DOMAIN d.files

\* fs.statSync(p).isDirectory() of a path that exists
isDirectory(d, p) == Resolve(p) \in d.dirs

\* fs.mkdirSync(p, { recursive: true })
mkdirSync(d, p) ==
    IF \E q \in Prefixes(Resolve(p)) : q \in DOMAIN d.files
    THEN FsThrows(d, "EEXIST")
    ELSE FsOk(Disk(d.dirs \cup Prefixes(Resolve(p)), d.files))

\* fs.writeFileSync(p, data)
writeFileSync(d, p, data) ==
    IF EndsWithSlash(p) \/ Resolve(p) \in d.dirs THEN FsThrows(d, "EISDIR")
    ELSE IF Parent(Resolve(p)) \notin d.dirs THEN FsThrows(d, "ENOENT")
    ELSE FsOk(Disk(d.dirs, (Resolve(p) :> data) @@ d.files))

FileId == "f789"
AttachFileId == "a456"

AbsolutePath(names) == <<Slash>> \o JoinSegments([i \in 1..Len(names) |-> <<names[i]>>])

\* args.savePath: omitted, empty, a directory with and without the trailing
\* separator, a file in a directory that may be missing, a relative name.
SavePaths ==
    {Undefined,
     Some(<<>>),
     Some(Append(AbsolutePath(<<"tmp", "dl">>), Slash)),
     Some(AbsolutePath(<<"tmp", "dl">>)),
     Some(AbsolutePath(<<"tmp", "new", "out.bin">>)),
     Some(Append(AbsolutePath(<<"tmp", "dl", "sub">>), Slash)),
     Some(<<"out.bin">>)}

\* File names without quote, semicolon, newline or percent sign, and the two
\* forms in which a header carries one.
PlainNames == {<<>>, <<"report.pdf">>, <<"a", Equals, "b">>, <<"filename", Equals, "x">>}
Quoted(name) ==
    <<"attachment", Semicolon, "filename", Equals, DoubleQuote>> \o name \o <<DoubleQuote>>
Unquoted(name) == <<"attachment", Semicolon, "filename", Equals>> \o name

\* Content-Disposition headers the service may send.
ContentDispositions ==
    {Undefined, Some(<<>>), Some(<<"attachment">>)}
    \cup {Some(Quoted(name)) : name \in PlainNames}
    \cup {Some(Unquoted(name)) : name \in PlainNames}
    \cup {Some(Unquoted(<<"report", "%zz", ".pdf">>)),
          Some(Quoted(<<"%41", "%zz">>)),
          Some(Quoted(<<"%41", ".pdf">>)),
          Some(Unquoted(<<"%22", "a", "%22">>)),
          Some(Unquoted(<<"..", Slash, "x">>)),
          Some(Unquoted(<<"sub", Slash, "x">>)),
          Some(<<"attachment", Semicolon, "filename", "*", Equals, "UTF-8", SingleQuote,
                 SingleQuote, "report.pdf">>),
          Some(Quoted(<<"a", Semicolon, "b">>) \o <<Semicolon, "size", Equals, "3">>)}

\* What wikiApi.downloadWikiPageFile and downloadWikiAttachFile resolve to.
DownloadResults ==
    [data : {<<"b1", "b2">>},
     contentType : {"application/pdf"},
     contentLength : {2},
     contentDisposition : ContentDispositions]

\* A string in a condition: undefined and the empty string are falsy.
TruthyText(o) == IsDefined(o) /\ Val(o) # <<>>

\* JSON.stringify leaves out a key whose value is undefined.
JsonField(key, o) == IF IsDefined(o) THEN key :> Val(o) ELSE EmptyObject

\* Buffer.from(data).toString('base64')
Base64(data) == <<"base64", data>>

\* Lines 52-53 (both handlers)
IsDirectoryStyle(d, targetPath) ==
    EndsWithSlash(targetPath) \/ (existsSync(d, targetPath) /\ isDirectory(d, targetPath))

\* Lines 55-58 and 60-65 (both handlers): the directory is created when missing.
EnsureDirectory(d, targetPath) ==
    LET dir == IF IsDirectoryStyle(d, targetPath) THEN targetPath ELSE Dirname(targetPath)
    IN  IF ~existsSync(d, dir) THEN mkdirSync(d, dir) ELSE FsOk(d)

\* download-wiki-page-file.ts
downloadWikiPageFileGeneratedName == <<"wiki-file-", FileId>>

\* Lines 51-65: targetPath when the write happens.
downloadWikiPageFileTargetPath(path, filename, d) ==
    IF IsDirectoryStyle(d, path)
    THEN PathJoin(path, IF TruthyText(filename) THEN Val(filename)
                        ELSE downloadWikiPageFileGeneratedName)
    ELSE path

\* Lines 50-67
downloadWikiPageFileSave(path, res, d) ==
    LET made == EnsureDirectory(d, path)
    IN  IF made.ok
        THEN writeFileSync(made.disk,
                 downloadWikiPageFileTargetPath(path, extractFilename(res.contentDisposition), d),
                 res.data)
        ELSE made

\* Variant: savedTo reports the path the caller gave.
downloadWikiPageFileReturnSavedAsGiven(path, res, d) ==
    LET filename == extractFilename(res.contentDisposition)
    IN  SuccessEnvelope(
            ("success" :> TRUE) @@ ("fileId" :> FileId) @@ JsonField("filename", filename)
            @@ ("contentType" :> res.contentType) @@ ("contentLength" :> res.contentLength)
            @@ ("savedTo" :> path)
            @@ ("message" :> <<"File saved to ", path, res.contentLength>>))

\* Lines 69-84
downloadWikiPageFileReturnSaved(path, res, d) ==
    LET filename == extractFilename(res.contentDisposition)
        targetPath == downloadWikiPageFileTargetPath(path, filename, d)
    IN  SuccessEnvelope(
            ("success" :> TRUE) @@ ("fileId" :> FileId) @@ JsonField("filename", filename)
            @@ ("contentType" :> res.contentType) @@ ("contentLength" :> res.contentLength)
            @@ ("savedTo" :> targetPath)
            @@ ("message" :> <<"File saved to ", targetPath, res.contentLength>>))

\* Lines 87-103
downloadWikiPageFileReturnBase64(res) ==
    SuccessEnvelope(
        ("success" :> TRUE) @@ ("fileId" :> FileId)
        @@ JsonField("filename", extractFilename(res.contentDisposition))
        @@ ("contentType" :> res.contentType) @@ ("contentLength" :> res.contentLength)
        @@ ("base64Data" :> Base64(res.data)))

\* download-wiki-attach-file.ts
\* Line 97
downloadWikiAttachFileGeneratedName == <<"wiki-attach-", AttachFileId>>

\* Lines 89-103: targetPath when the write happens.
downloadWikiAttachFileTargetPath(path, filename, d) ==
    IF IsDirectoryStyle(d, path)
    THEN PathJoin(path, IF TruthyText(filename) THEN Val(filename)
                        ELSE downloadWikiAttachFileGeneratedName)
    ELSE path

\* Lines 88-105
downloadWikiAttachFileSave(path, res, d) ==
    LET made == EnsureDirectory(d, path)
    IN  IF made.ok
        THEN writeFileSync(made.disk,
                 downloadWikiAttachFileTargetPath(path,
                     extractFilenameAttach(res.contentDisposition), d),
                 res.data)
        ELSE made

\* Lines 107-122
downloadWikiAttachFileReturnSaved(path, res, d) ==
    LET filename == extractFilenameAttach(res.contentDisposition)
        targetPath == downloadWikiAttachFileTargetPath(path, filename, d)
    IN  SuccessEnvelope(
            ("success" :> TRUE) @@ ("attachFileId" :> AttachFileId)
            @@ JsonField("filename", filename)
            @@ ("contentType" :> res.contentType) @@ ("contentLength" :> res.contentLength)
            @@ ("savedTo" :> targetPath)
            @@ ("message" :> <<"File saved to ", targetPath, res.contentLength>>))

\* Variant: the encoded content is returned together with savedTo.
downloadWikiAttachFileReturnBase64Always(res) ==
    SuccessEnvelope(
        ("success" :> TRUE) @@ ("attachFileId" :> AttachFileId)
        @@ JsonField("filename", extractFilenameAttach(res.contentDisposition))
        @@ ("contentType" :> res.contentType) @@ ("contentLength" :> res.contentLength)
        @@ ("savedTo" :> <<>>)
        @@ ("base64Data" :> Base64(res.data)))

\* Lines 125-141
downloadWikiAttachFileReturnBase64(res) ==
    SuccessEnvelope(
        ("success" :> TRUE) @@ ("attachFileId" :> AttachFileId)
        @@ JsonField("filename", extractFilenameAttach(res.contentDisposition))
        @@ ("contentType" :> res.contentType) @@ ("contentLength" :> res.contentLength)
        @@ ("base64Data" :> Base64(res.data)))

\* The two handlers share one description of an invocation; `downloader`
\* says which one runs.
Downloaders == {"page", "attach"}
DownloadOp(h) == IF h = "page" THEN "downloadWikiPageFile" ELSE "downloadWikiAttachFile"
DownloadArg(h) ==
    IF h = "page"
    THEN [wikiId |-> WikiId, pageId |-> PageId, fileId |-> FileId]
    ELSE [wikiId |-> WikiId, attachFileId |-> AttachFileId]
Filename(h, res) ==
    IF h = "page" THEN extractFilename(res.contentDisposition)
    ELSE extractFilenameAttach(res.contentDisposition)
TargetPath(h, path, res, d) ==
    IF h = "page" THEN downloadWikiPageFileTargetPath(path, Filename(h, res), d)
    ELSE downloadWikiAttachFileTargetPath(path, Filename(h, res), d)
Save(h, path, res, d) ==
    IF h = "page" THEN downloadWikiPageFileSave(path, res, d)
    ELSE downloadWikiAttachFileSave(path, res, d)
ReturnSaved(h, path, res, d) ==
    IF h = "page" THEN downloadWikiPageFileReturnSaved(path, res, d)
    ELSE downloadWikiAttachFileReturnSaved(path, res, d)
ReturnBase64(h, res) ==
    IF h = "page" THEN downloadWikiPageFileReturnBase64(res)
    ELSE downloadWikiAttachFileReturnBase64(res)

DownloadInit ==
    /\ dpc = "idle"
    /\ downloader = "page"
    /\ savePath = Undefined
    /\ download = Undefined
    /\ disk0 = EmptyDisk
    /\ disk = EmptyDisk
    /\ downloadCalls = <<>>
    /\ downloadError = Undefined
    /\ downloadEnvelope = NoEnvelope

\* A download tool is invoked with the file system as it then is: the handler
\* issues its one API call.
downloadHandler ==
    /\ dpc = "idle"
    /\ \E h \in Downloaders, p \in SavePaths, d \in Disks :
          /\ downloader' = h
          /\ savePath' = p
          /\ disk0' = d
          /\ disk' = d
          /\ downloadCalls' = Append(downloadCalls, Call(DownloadOp(h), DownloadArg(h)))
    /\ dpc' = "awaitDownload"
    /\ UNCHANGED <<download, downloadError, downloadEnvelope, notDownloadVars>>

\* The call resolves and a save path was given: directory made, file written.
DownloadSaved ==
    /\ dpc = "awaitDownload"
    /\ TruthyText(savePath)
    /\ \E res \in DownloadResults :
          /\ Save(downloader, Val(savePath), res, disk).ok
          /\ download' = Some(res)
          /\ disk' = Save(downloader, Val(savePath), res, disk).disk
          /\ downloadEnvelope' = ReturnSaved(downloader, Val(savePath), res, disk)
    /\ dpc' = "done"
    /\ UNCHANGED <<downloader, savePath, disk0, downloadCalls, downloadError, notDownloadVars>>

\* Variant: the failure of the write is swallowed and the result returned.
DownloadSaveFailSwallowed ==
    /\ dpc = "awaitDownload"
    /\ TruthyText(savePath)
    /\ \E res \in DownloadResults :
          /\ ~Save(downloader, Val(savePath), res, disk).ok
          /\ download' = Some(res)
          /\ disk' = Save(downloader, Val(savePath), res, disk).disk
          /\ downloadError' = Some(Save(downloader, Val(savePath), res, disk).error)
          /\ downloadEnvelope' = ReturnSaved(downloader, Val(savePath), res, disk)
    /\ dpc' = "done"
    /\ UNCHANGED <<downloader, savePath, disk0, downloadCalls, notDownloadVars>>

\* The call resolves and mkdirSync or writeFileSync throws.
DownloadSaveFail ==
    /\ dpc = "awaitDownload"
    /\ TruthyText(savePath)
    /\ \E res \in DownloadResults :
          /\ ~Save(downloader, Val(savePath), res, disk).ok
          /\ download' = Some(res)
          /\ disk' = Save(downloader, Val(savePath), res, disk).disk
          /\ downloadError' = Some(Save(downloader, Val(savePath), res, disk).error)
    /\ dpc' = "catch"
    /\ UNCHANGED <<downloader, savePath, disk0, downloadCalls, downloadEnvelope,
                   notDownloadVars>>

\* The call resolves and no save path was given.
DownloadBase64 ==
    /\ dpc = "awaitDownload"
    /\ ~TruthyText(savePath)
    /\ \E res \in DownloadResults :
          /\ download' = Some(res)
          /\ downloadEnvelope' = ReturnBase64(downloader, res)
    /\ dpc' = "done"
    /\ UNCHANGED <<downloader, savePath, disk0, disk, downloadCalls, downloadError,
                   notDownloadVars>>

\* The call is rejected.
DownloadFail ==
    /\ dpc = "awaitDownload"
    /\ downloadError' = Some(ApiError(DownloadOp(downloader)))
    /\ dpc' = "catch"
    /\ UNCHANGED <<downloader, savePath, download, disk0, disk, downloadCalls,
                   downloadEnvelope, notDownloadVars>>

\* The catch block of either handler.
DownloadCatch ==
    /\ dpc = "catch"
    /\ downloadEnvelope' = ErrorEnvelope(Val(downloadError))
    /\ dpc' = "done"
    /\ UNCHANGED <<downloader, savePath, download, disk0, disk, downloadCalls, downloadError,
                   notDownloadVars>>

NextDownload ==
    \/ downloadHandler
    \/ DownloadSaved
    \/ DownloadSaveFail
    \/ DownloadBase64
    \/ DownloadFail
    \/ DownloadCatch

\* ------------------------------------------------------------------------
\* delete-wiki-page-file (tools/wiki/delete-wiki-page-file.ts)
\* ------------------------------------------------------------------------
DeleteInit ==
    /\ xpc = "idle"
    /\ deleteCalls = <<>>
    /\ deleteError = Undefined
    /\ deleteEnvelope = NoEnvelope

\* Lines 20-24: the one API call.
deleteWikiPageFileHandler ==
    /\ xpc = "idle"
    /\ deleteCalls' = Append(deleteCalls,
           Call("deleteWikiPageFile", [wikiId |-> WikiId, pageId |-> PageId, fileId |-> FileId]))
    /\ xpc' = "awaitDeleteWikiPageFile"
    /\ UNCHANGED <<deleteError, deleteEnvelope, notDeleteVars>>

\* Lines 26-36
DeleteWikiPageFileOk ==
    /\ xpc = "awaitDeleteWikiPageFile"
    /\ deleteEnvelope' = SuccessEnvelope(
           [success |-> TRUE,
            message |-> <<"File ", FileId, " successfully deleted from wiki page.">>])
    /\ xpc' = "done"
    /\ UNCHANGED <<deleteCalls, deleteError, notDeleteVars>>

DeleteWikiPageFileFail ==
    /\ xpc = "awaitDeleteWikiPageFile"
    /\ deleteError' = Some(ApiError("deleteWikiPageFile"))
    /\ xpc' = "catch"
    /\ UNCHANGED <<deleteCalls, deleteEnvelope, notDeleteVars>>

\* Lines 37-47
DeleteWikiPageFileCatch ==
    /\ xpc = "catch"
    /\ deleteEnvelope' = ErrorEnvelope(Val(deleteError))
    /\ xpc' = "done"
    /\ UNCHANGED <<deleteCalls, deleteError, notDeleteVars>>

\* ------------------------------------------------------------------------
\* update-wiki-page (tools/wiki/update-wiki-page.ts, api/wiki.ts)
\* ------------------------------------------------------------------------
\* A referrers value: null, or a list of member references.
JsNull == [isNull |-> TRUE, items |-> <<>>]
JsArray(items) == [isNull |-> FALSE, items |-> items]
Referrer == [type |-> "member", member |-> [organizationMemberId |-> "u1"]]

updateWikiPageSchema ==
    [wikiId : {WikiId},
     pageId : {PageId},
     subject : Optional({"", "t1"}),
     content : Optional({"", "c1"}),
     referrers : Optional({JsNull, JsArray(<<>>), JsArray(<<Referrer>>)})]

NoWikiArgs ==
    [wikiId |-> WikiId, pageId |-> PageId, subject |-> Undefined, content |-> Undefined,
     referrers |-> Undefined]

\* update-wiki-page.ts, lines 27-33: the argument of wikiApi.updateWikiPage.
WikiPageUpdateParams(a) ==
    [wikiId |-> a.wikiId,
     pageId |-> a.pageId,
     subject |-> a.subject,
     body |-> IF TruthyString(a.content)
              THEN Some([mimeType |-> "text/x-markdown", content |-> Val(a.content)])
              ELSE Undefined,
     referrers |-> a.referrers]

\* api/wiki.ts, lines 71-78: the PUT that updateWikiPage sends.
updateWikiPage(params) ==
    [method |-> "PUT",
     url |-> <<"/wiki/v1", "/wikis/", params.wikiId, "/pages/", params.pageId>>,
     body |-> SetIfDefined(SetIfDefined(SetIfDefined(EmptyObject,
                  "subject", params.subject), "body", params.body),
                  "referrers", params.referrers)]

WikiInit ==
    /\ wpc = "idle"
    /\ wikiArgs = NoWikiArgs
    /\ wikiRequests = <<>>
    /\ wikiError = Undefined
    /\ wikiEnvelope = NoEnvelope

\* The tool is invoked and the PUT is sent.
updateWikiPageHandler ==
    /\ wpc = "idle"
    /\ \E a \in updateWikiPageSchema :
          /\ wikiArgs' = a
          /\ wikiRequests' = Append(wikiRequests, updateWikiPage(WikiPageUpdateParams(a)))
    /\ wpc' = "awaitUpdateWikiPage"
    /\ UNCHANGED <<wikiError, wikiEnvelope, notWikiVars>>

\* Line 34
UpdateWikiPageOk ==
    /\ wpc = "awaitUpdateWikiPage"
    /\ wikiEnvelope' = SuccessEnvelope(
           [success |-> TRUE, message |-> <<"Wiki page updated successfully">>])
    /\ wpc' = "done"
    /\ UNCHANGED <<wikiArgs, wikiRequests, wikiError, notWikiVars>>

\* client.put rejects.
UpdateWikiPageFail ==
    /\ wpc = "awaitUpdateWikiPage"
    /\ wikiError' = Some(ApiError("updateWikiPage"))
    /\ wpc' = "catch"
    /\ UNCHANGED <<wikiArgs, wikiRequests, wikiEnvelope, notWikiVars>>

\* Lines 35-37
UpdateWikiPageCatch ==
    /\ wpc = "catch"
    /\ wikiEnvelope' = ErrorEnvelope(Val(wikiError))
    /\ wpc' = "done"
    /\ UNCHANGED <<wikiArgs, wikiRequests, wikiError, notWikiVars>>

NextUpdateWikiPage ==
    \/ updateWikiPageHandler
    \/ UpdateWikiPageOk
    \/ UpdateWikiPageFail
    \/ UpdateWikiPageCatch

\* ------------------------------------------------------------------------
\* Two update-task invocations whose awaits interleave
\* ------------------------------------------------------------------------
\* Every variable of updateTaskHandler (args, updateParams, result, error) is
\* a parameter or a local of the call, so each invocation has its own copy;
\* the remote task is the one thing both reach.
Invocations == {1, 2}

\* The arguments that decide which calls are issued.
ConcurrentArgs ==
    {[NoArgs EXCEPT !.subject = s, !.workflowId = w, !.parentPostId = p] :
        s \in Optional(Subjects), w \in Optional(WorkflowIds), p \in Optional(ParentPostIds)}

AwaitOf(step) ==
    CASE step = "step2" -> "awaitUpdateTask"
      [] step = "step3" -> "awaitSetTaskWorkflow"
      [] step = "step4" -> "awaitSetParentPost"
      [] step = "step5" -> "awaitGetTaskDetails"

AfterStep(step) ==
    CASE step \in {"step2", "awaitUpdateTask"} -> "step3"
      [] step \in {"step3", "awaitSetTaskWorkflow"} -> "step4"
      [] step \in {"step4", "awaitSetParentPost"} -> "step5"
      [] step \in {"step5", "awaitGetTaskDetails"} -> "return"

\* The tests of lines 59, 65, 70 and 74.
StepWanted(step, a, params, res) ==
    CASE step = "step2" -> HasUpdateParams(params)
      [] step = "step3" -> IsDefined(a.workflowId)
      [] step = "step4" -> IsDefined(a.parentPostId)
      [] step = "step5" -> NeedsFetch(res)

\* The calls of lines 61, 66, 71 and 76.
StepCall(step, a, params) ==
    CASE step = "step2" -> Call("updateTask", <<ProjectId, TaskId, params>>)
      [] step = "step3" -> Call("setTaskWorkflow", <<ProjectId, TaskId, Val(a.workflowId)>>)
      [] step = "step4" -> Call("setParentPost", <<ProjectId, TaskId, Val(a.parentPostId)>>)
      [] step = "step5" -> Call("getTaskDetails", <<TaskId, ProjectId>>)

ConcurrentInit ==
    /\ ipc = [i \in Invocations |-> "idle"]
    /\ iargs = [i \in Invocations |-> NoArgs]
    /\ iupdateParams = [i \in Invocations |-> EmptyObject]
    /\ iresult = [i \in Invocations |-> Undefined]
    /\ ierror = [i \in Invocations |-> Undefined]
    /\ ienvelope = [i \in Invocations |-> NoEnvelope]
    /\ icalls = [i \in Invocations |-> <<>>]
    /\ iresponses = [i \in Invocations |-> <<>>]
    /\ iserver = InitialTask

\* Variant: updateParams is one module-level object that every invocation
\* fills in.
ConcurrentInvokeSharedParams(i) ==
    /\ ipc[i] = "idle"
    /\ \E a \in ConcurrentArgs :
          /\ iargs' = [iargs EXCEPT ![i] = a]
          /\ iupdateParams' = [j \in Invocations |-> BuildUpdateParams(a)]
    /\ ipc' = [ipc EXCEPT ![i] = "step2"]
    /\ UNCHANGED <<iresult, ierror, ienvelope, icalls, iresponses, iserver, notConcurrentVars>>

\* Invocation i starts; lines 40-56 build its own updateParams.
ConcurrentInvoke(i) ==
    /\ ipc[i] = "idle"
    /\ \E a \in ConcurrentArgs :
          /\ iargs' = [iargs EXCEPT ![i] = a]
          /\ iupdateParams' = [iupdateParams EXCEPT ![i] = BuildUpdateParams(a)]
    /\ ipc' = [ipc EXCEPT ![i] = "step2"]
    /\ UNCHANGED <<iresult, ierror, ienvelope, icalls, iresponses, iserver, notConcurrentVars>>

\* Invocation i runs up to its next await: the call is issued, or the
\* statement is passed over.
ConcurrentStep(i) ==
    /\ ipc[i] \in {"step2", "step3", "step4", "step5"}
    /\ IF StepWanted(ipc[i], iargs[i], iupdateParams[i], iresult[i])
       THEN /\ icalls' = [icalls EXCEPT
                             ![i] = Append(@, StepCall(ipc[i], iargs[i], iupdateParams[i]))]
            /\ ipc' = [ipc EXCEPT ![i] = AwaitOf(@)]
       ELSE /\ ipc' = [ipc EXCEPT ![i] = AfterStep(@)]
            /\ UNCHANGED icalls
    /\ UNCHANGED <<iargs, iupdateParams, iresult, ierror, ienvelope, iresponses, iserver,
                   notConcurrentVars>>

\* The call invocation i is suspended on.
InFlight(i) == icalls[i][Len(icalls[i])]

\* The remote service applies the call of invocation i that is in flight.
ServerAfter(i) ==
    CASE ipc[i] = "awaitUpdateTask" -> ApplyPut(iserver, iupdateParams[i])
      [] ipc[i] = "awaitSetTaskWorkflow" -> ApplyWorkflow(iserver, Val(iargs[i].workflowId))
      [] ipc[i] = "awaitSetParentPost" -> ApplyParent(iserver, Val(iargs[i].parentPostId))
      [] ipc[i] = "awaitGetTaskDetails" -> iserver

\* What the awaited call of invocation i may resolve to.
AnswersOf(i) ==
    CASE ipc[i] = "awaitUpdateTask" -> {Undefined, Some(ServerAfter(i))}
      [] ipc[i] = "awaitSetTaskWorkflow" -> {Undefined}
      [] ipc[i] = "awaitSetParentPost" -> {Undefined}
      [] ipc[i] = "awaitGetTaskDetails" -> {Some(iserver)}

\* The awaited call of invocation i is answered and i resumes.
ConcurrentAnswer(i) ==
    /\ ipc[i] \in {"awaitUpdateTask", "awaitSetTaskWorkflow", "awaitSetParentPost",
                   "awaitGetTaskDetails"}
    /\ iserver' = ServerAfter(i)
    /\ \E r \in AnswersOf(i) :
          /\ iresponses' = [iresponses EXCEPT
                               ![i] = Append(@, Response(InFlight(i).op, TRUE, r))]
          /\ iresult' = IF ipc[i] \in {"awaitUpdateTask", "awaitGetTaskDetails"}
                        THEN [iresult EXCEPT ![i] = r]
                        ELSE iresult
    /\ ipc' = [ipc EXCEPT ![i] = AfterStep(@)]
    /\ UNCHANGED <<iargs, iupdateParams, ierror, ienvelope, icalls, notConcurrentVars>>

\* The awaited call of invocation i is rejected: i enters its catch block.
ConcurrentReject(i) ==
    /\ ipc[i] \in {"awaitUpdateTask", "awaitSetTaskWorkflow", "awaitSetParentPost",
                   "awaitGetTaskDetails"}
    /\ ierror' = [ierror EXCEPT ![i] = Some(ApiError(InFlight(i).op))]
    /\ iresponses' = [iresponses EXCEPT
                         ![i] = Append(@, Response(InFlight(i).op, FALSE, Undefined))]
    /\ ipc' = [ipc EXCEPT ![i] = "catch"]
    /\ UNCHANGED <<iargs, iupdateParams, iresult, ienvelope, icalls, iserver, notConcurrentVars>>

\* Lines 79-86 and 87-97.
ConcurrentReturn(i) ==
    /\ ipc[i] \in {"return", "catch"}
    /\ ienvelope' = [ienvelope EXCEPT
                        ![i] = IF ipc[i] = "return"
                               THEN SuccessEnvelope(Val(iresult[i]))
                               ELSE ErrorEnvelope(Val(ierror[i]))]
    /\ ipc' = [ipc EXCEPT ![i] = "done"]
    /\ UNCHANGED <<iargs, iupdateParams, iresult, ierror, icalls, iresponses, iserver,
                   notConcurrentVars>>

NextConcurrent ==
    \E i \in Invocations :
        \/ ConcurrentInvoke(i)
        \/ ConcurrentStep(i)
        \/ ConcurrentAnswer(i)
        \/ ConcurrentReject(i)
        \/ ConcurrentReturn(i)

\* ------------------------------------------------------------------------
\* Specifications
\* ------------------------------------------------------------------------
Init == TaskInit /\ UploadInit /\ CreateInit /\ DownloadInit /\ DeleteInit /\ WikiInit
        /\ ConcurrentInit

SpecUpdateTask == Init /\ [][NextUpdateTask]_vars
SpecUpload == Init /\ [][NextUpload]_vars
SpecCreateTask == Init /\ [][NextCreateTask]_vars
SpecDownload == Init /\ [][NextDownload]_vars
SpecUpdateWikiPage == Init /\ [][NextUpdateWikiPage]_vars
SpecConcurrent == Init /\ [][NextConcurrent]_vars

\* Every tool of the server, one invocation at a time.
ToolsIdle ==
    pc = "idle" /\ upc = "idle" /\ cpc = "idle" /\ dpc = "idle" /\ xpc = "idle" /\ wpc = "idle"
InvokeUpdateTask == ToolsIdle /\ updateTaskHandler
InvokeUpload == ToolsIdle /\ uploadHandler
InvokeCreateTask == ToolsIdle /\ createTaskHandler
InvokeDownload == ToolsIdle /\ downloadHandler
InvokeDeleteWikiPageFile == ToolsIdle /\ deleteWikiPageFileHandler
InvokeUpdateWikiPage == ToolsIdle /\ updateWikiPageHandler

NextTools ==
    \/ InvokeUpdateTask
    \/ Step2
    \/ UpdateTaskOk
    \/ UpdateTaskFail
    \/ Step3
    \/ SetTaskWorkflowOk
    \/ SetTaskWorkflowFail
    \/ Step4
    \/ SetParentPostOk
    \/ SetParentPostFail
    \/ Step5
    \/ GetTaskDetailsOk
    \/ GetTaskDetailsFail
    \/ ReturnResult
    \/ CatchError
    \/ InvokeUpload
    \/ Step1Done
    \/ Step1Fail
    \/ Step2Done
    \/ DirectDone
    \/ SecondFail
    \/ UploadCatch
    \/ InvokeCreateTask
    \/ CreateDraftTaskOk
    \/ CreateTaskOk
    \/ CreateFail
    \/ CreateCatch
    \/ InvokeDownload
    \/ DownloadSaved
    \/ DownloadSaveFail
    \/ DownloadBase64
    \/ DownloadFail
    \/ DownloadCatch
    \/ InvokeDeleteWikiPageFile
    \/ DeleteWikiPageFileOk
    \/ DeleteWikiPageFileFail
    \/ DeleteWikiPageFileCatch
    \/ InvokeUpdateWikiPage
    \/ UpdateWikiPageOk
    \/ UpdateWikiPageFail
    \/ UpdateWikiPageCatch

SpecTools == Init /\ [][NextTools]_vars

\* ------------------------------------------------------------------------
\* Properties of update-task
\* ------------------------------------------------------------------------
FieldKeys == {"subject", "body", "dueDate", "milestoneId", "tagIds", "priority"}
Returned == pc = "done"
ReturnedSuccess == pc = "done" /\ ~envelope.isError
Ops == [i \in 1..Len(calls) |-> calls[i].op]
PayloadOf(call) == call.arg[3]

\* C1: the field-patch PUT payload has, among subject, body, dueDate,
\* milestoneId, tagIds and priority, exactly the keys the caller supplied
\* (presence, not truthiness), each with the supplied value; an explicit
\* null milestoneId is sent as null, an omitted one is not sent.
C1_PayloadIsExactlySupplied ==
    \A i \in 1..Len(calls) :
        calls[i].op = "updateTask" =>
            \A k \in FieldKeys :
                /\ (k \in DOMAIN PayloadOf(calls[i])) <=> IsDefined(args[k])
                /\ IsDefined(args[k]) => PayloadOf(calls[i])[k] = Val(args[k])

C1_Witness ==
    /\ Len(calls) >= 1
    /\ calls[1].op = "updateTask"
    /\ args.milestoneId = Some(Null)
    /\ PayloadOf(calls[1]).milestoneId = Null
    /\ args.subject = Some("")
    /\ args.tagIds = Some(<<>>)
    /\ ~IsDefined(args.dueDate)
    /\ "dueDate" \notin DOMAIN PayloadOf(calls[1])

OnlyWorkflow(a) ==
    /\ IsDefined(a.workflowId)
    /\ \A k \in (DOMAIN a) \ {"workflowId"} : ~IsDefined(a[k])

\* C2: when workflowId is the only optional argument, updateTask is never
\* called, setTaskWorkflow is called, and the task returned on success is
\* the response of a getTaskDetails issued after the workflow call.
C2_OnlyWorkflow ==
    (pc # "idle" /\ OnlyWorkflow(args)) =>
        /\ \A i \in 1..Len(calls) : calls[i].op # "updateTask"
        /\ pc \notin {"step2", "step3"} =>
              Len(calls) >= 1 /\ calls[1].op = "setTaskWorkflow"
        /\ ReturnedSuccess =>
              /\ Ops = <<"setTaskWorkflow", "getTaskDetails">>
              /\ responses[2].op = "getTaskDetails"
              /\ responses[2].ok
              /\ envelope = SuccessEnvelope(Val(responses[2].value))

C2_Witness == ReturnedSuccess /\ OnlyWorkflow(args) /\ Len(calls) = 2

\* C3: whenever update-task returns a success envelope, the task in it
\* equals the server's task after every sub-call of the invocation.
C3_ReturnedTaskIsCurrent ==
    ReturnedSuccess => envelope = SuccessEnvelope(server)

Attribute(task, k) ==
    IF k = "assignees" THEN task.users.to
    ELSE IF k = "cc" THEN task.users.cc
    ELSE task[k]

\* C4: after a successful update-task every attribute the caller did not
\* supply has the value it had before (the server replacing wholesale the
\* keys it receives).
C4_UnsuppliedUnchanged ==
    ReturnedSuccess =>
        \A k \in DOMAIN args :
            ~IsDefined(args[k]) => Attribute(server, k) = Attribute(InitialTask, k)

Effect(task, call) ==
    CASE call.op = "updateTask" -> ApplyPut(task, call.arg[3])
      [] call.op = "setTaskWorkflow" -> ApplyWorkflow(task, call.arg[3])
      [] call.op = "setParentPost" -> ApplyParent(task, call.arg[3])
      [] OTHER -> task

RECURSIVE Replay(_, _)
Replay(task, cs) ==
    IF Len(cs) = 0 THEN task ELSE Replay(Effect(task, Head(cs)), Tail(cs))

\* C5: when a sub-call fails, it is the last call of the invocation (no
\* later and no compensating call), the effects of the calls that succeeded
\* before it stay on the server, and the handler returns the isError
\* envelope carrying that call's error.
C5_FailureAborts ==
    IsDefined(error) =>
        /\ pc \in {"catch", "done"}
        /\ inflight = 0
        /\ Len(calls) >= 1
        /\ Len(responses) = Len(calls)
        /\ \A i \in 1..(Len(calls) - 1) : responses[i].ok /\ responses[i].op = calls[i].op
        /\ ~responses[Len(calls)].ok
        /\ Val(error) = ApiError(calls[Len(calls)].op)
        /\ server = Replay(InitialTask, SubSeq(calls, 1, Len(calls) - 1))
        /\ Returned => envelope = ErrorEnvelope(ApiError(calls[Len(calls)].op))

C5_Witness ==
    /\ Returned
    /\ envelope.isError
    /\ Ops = <<"updateTask", "setTaskWorkflow", "setParentPost">>
    /\ server = ApplyWorkflow(ApplyPut(InitialTask, updateParams), Val(args.workflowId))
    /\ server # InitialTask

OnlyTagIds(a) ==
    /\ IsDefined(a.tagIds)
    /\ \A k \in (DOMAIN a) \ {"tagIds"} : ~IsDefined(a[k])
PatchAnswered == Len(responses) >= 1 /\ responses[1].op = "updateTask" /\ responses[1].ok

\* C16: update-task with tagIds T and no other optional field issues a
\* single field-patch PUT whose payload is exactly tagIds T, and once the
\* server has applied it the task's tags are exactly T, whatever they were.
C16_TagsReplaced ==
    (OnlyTagIds(args) /\ pc \notin {"idle", "step2"}) =>
        /\ Len(calls) >= 1
        /\ calls[1] = Call("updateTask", <<ProjectId, TaskId, ("tagIds" :> Val(args.tagIds))>>)
        /\ \A i \in 2..Len(calls) : calls[i].op # "updateTask"
        /\ PatchAnswered => server.tagIds = Val(args.tagIds)

C16_Witness ==
    /\ OnlyTagIds(args)
    /\ args.tagIds = Some(<<"a", "b">>)
    /\ ReturnedSuccess
    /\ server.tagIds = <<"a", "b">>
    /\ InitialTask.tagIds = <<"t0">>

Rank(op) ==
    CASE op = "updateTask" -> 1
      [] op = "setTaskWorkflow" -> 2
      [] op = "setParentPost" -> 3
      [] op = "getTaskDetails" -> 4

\* C19: the calls of an update-task invocation are issued one at a time in
\* the order field patch, workflow PUT, parent PUT, fetch: at most one
\* request is in flight and a call is issued only after every earlier call
\* was answered successfully.
C19_Sequential ==
    /\ inflight \in {0, 1}
    /\ Len(calls) = Len(responses) + inflight
    /\ \A i, j \in 1..Len(calls) : i < j => Rank(calls[i].op) < Rank(calls[j].op)
    /\ \A i \in 1..Len(responses) : responses[i].op = calls[i].op
    /\ \A i \in 1..(Len(calls) - 1) : responses[i].ok

C19_Witness ==
    /\ inflight = 1
    /\ Ops = <<"updateTask", "setTaskWorkflow", "setParentPost">>
    /\ Len(responses) = 2

Issued(op) == \E i \in 1..Len(calls) : calls[i].op = op

\* C20: the full-record fetch is issued if and only if the field-patch PUT
\* was not issued in this invocation (no sub-call having failed before);
\* when the patch was issued, whatever it returned, no fetch is made and
\* the patch response is the returned result.
C20_FetchIffNoPatch ==
    /\ Issued("getTaskDetails") => ~Issued("updateTask")
    /\ (pc \in {"return", "done"} /\ ~IsDefined(error)) =>
          /\ Issued("getTaskDetails") <=> ~Issued("updateTask")
          /\ Issued("updateTask") => result = responses[1].value

Count(op) == Cardinality({i \in 1..Len(calls) : calls[i].op = op})
Supplied(opt) == IF IsDefined(opt) THEN 1 ELSE 0

\* C21: in update-task the workflow PUT is issued exactly once when
\* workflowId was supplied and never when it was omitted, and the
\* parent-assignment PUT exactly once when parentPostId was supplied and
\* never when it was omitted, whether or not the field-patch PUT (and, for
\* the parent PUT, the workflow PUT) was issued; a rejected earlier call
\* ends the invocation before them.
C21_IndependentPuts ==
    /\ Count("setTaskWorkflow") <= Supplied(args.workflowId)
    /\ Count("setParentPost") <= Supplied(args.parentPostId)
    /\ (pc \in {"step4", "awaitSetParentPost", "step5", "awaitGetTaskDetails", "return"}
            \/ ReturnedSuccess) =>
          Count("setTaskWorkflow") = Supplied(args.workflowId)
    /\ (pc \in {"step5", "awaitGetTaskDetails", "return"} \/ ReturnedSuccess) =>
          Count("setParentPost") = Supplied(args.parentPostId)

C21_Witness ==
    /\ ReturnedSuccess
    /\ IsDefined(args.subject)
    /\ IsDefined(args.workflowId)
    /\ ~IsDefined(args.parentPostId)
    /\ Count("updateTask") = 1
    /\ Count("setTaskWorkflow") = 1
    /\ Count("setParentPost") = 0

MutatingOps == {"updateTask", "setTaskWorkflow", "setParentPost"}
OnlyIdsSupplied == pc # "idle" /\ args = NoArgs

C30_CallBudget ==
    /\ Len(calls) <= 4
    /\ Returned => Len(calls) >= 1
    /\ OnlyIdsSupplied =>
          /\ \A i \in 1..Len(calls) : calls[i].op \notin MutatingOps
          /\ Count("getTaskDetails") <= 1
          /\ server = InitialTask
    /\ OnlyIdsSupplied /\ Returned =>
          /\ Ops = <<"getTaskDetails">>
          /\ responses[1].ok => envelope = SuccessEnvelope(InitialTask)
          /\ ~responses[1].ok => envelope.isError

\* The number of statements and awaits still ahead of each position.
StepsLeft(p) ==
    CASE p = "step2" -> 11
      [] p = "awaitUpdateTask" -> 10
      [] p = "step3" -> 9
      [] p = "awaitSetTaskWorkflow" -> 8
      [] p = "step4" -> 7
      [] p = "awaitSetParentPost" -> 6
      [] p = "step5" -> 5
      [] p = "awaitGetTaskDetails" -> 4
      [] p = "return" -> 3
      [] p = "catch" -> 2
      [] p = "done" -> 0

Running == pc \notin {"idle", "done"}

\* C30: every update-task invocation issues at least one and at most four
\* network calls and then returns; when only projectId and taskId are
\* supplied it issues no PUT, exactly one full-record fetch, and returns the
\* fetched task as a success (an error result when the fetch is rejected).
\* Returning is stated as: a running invocation can always take a step, and
\* every step brings it strictly nearer to the return, so that it returns
\* once every awaited call is answered.
C30_BoundedAndReturns ==
    /\ []C30_CallBudget
    /\ [](Running => ENABLED NextUpdateTask)
    /\ [][pc # "idle" => StepsLeft(pc') < StepsLeft(pc)]_vars

C30_Witness ==
    /\ OnlyIdsSupplied
    /\ ReturnedSuccess
    /\ Ops = <<"getTaskDetails">>
    /\ envelope = SuccessEnvelope(InitialTask)

C30_WitnessFourCalls ==
    /\ ReturnedSuccess
    /\ Ops = <<"updateTask", "setTaskWorkflow", "setParentPost", "getTaskDetails">>

\* The requests update-task issues when it runs alone with arguments a and
\* its calls are answered by rs, from statement `step` on, res being the
\* local result.
RECURSIVE AloneFrom(_, _, _, _)
AloneFrom(step, a, rs, res) ==
    IF step = "return" THEN <<>>
    ELSE IF ~StepWanted(step, a, BuildUpdateParams(a), res)
         THEN AloneFrom(AfterStep(step), a, rs, res)
    ELSE IF rs = <<>> \/ ~Head(rs).ok
         THEN <<StepCall(step, a, BuildUpdateParams(a))>>
    ELSE <<StepCall(step, a, BuildUpdateParams(a))>>
            \o AloneFrom(AfterStep(step), a, Tail(rs),
                         IF step \in {"step2", "step5"} THEN Head(rs).value ELSE res)

Alone(a, rs) == AloneFrom("step2", a, rs, Undefined)

IsPrefix(s, t) == Len(s) <= Len(t) /\ \A k \in 1..Len(s) : s[k] = t[k]

Suspended == {"awaitUpdateTask", "awaitSetTaskWorkflow", "awaitSetParentPost",
              "awaitGetTaskDetails"}

\* The single invocation of SpecUpdateTask issues the requests of Alone.
AloneAgrees ==
    /\ pc # "idle" => IsPrefix(calls, Alone(args, responses))
    /\ pc \in Suspended \cup {"return", "catch", "done"} => calls = Alone(args, responses)

\* C27: tool invocations share no mutable state: when two update-task
\* invocations run with their awaited calls interleaving in any order, the
\* requests and payloads each issues are those it issues alone, determined
\* by its own arguments and the answers to its own calls.
C27_AsWhenAlone ==
    \A i \in Invocations :
        /\ ipc[i] = "idle" => icalls[i] = <<>>
        /\ ipc[i] # "idle" =>
              /\ iupdateParams[i] = BuildUpdateParams(iargs[i])
              /\ IsPrefix(icalls[i], Alone(iargs[i], iresponses[i]))
        /\ ipc[i] \in Suspended \cup {"return", "catch", "done"} =>
              icalls[i] = Alone(iargs[i], iresponses[i])

\* Both invocations are suspended at once, each after two calls of its own,
\* with different payloads, the remote task changed by both.
C27_Witness ==
    /\ ipc[1] = "awaitSetTaskWorkflow"
    /\ ipc[2] = "awaitSetParentPost"
    /\ Len(icalls[1]) = 2
    /\ Len(icalls[2]) = 3
    /\ icalls[1][1].arg # icalls[2][1].arg
    /\ iserver.subject = Val(iargs[1].subject)
    /\ iserver.workflowId = Val(iargs[2].workflowId)

\* C22: in update-task the field-patch payload has a users key if and only
\* if assignees or cc was supplied, an empty list counting as supplied; when
\* present, users has a to list built from assignees and a cc list built
\* from cc, the side that was not supplied being the empty list.
C22_UsersPayload ==
    pc # "idle" =>
        /\ ("users" \in DOMAIN updateParams) <=>
              (IsDefined(args.assignees) \/ IsDefined(args.cc))
        /\ "users" \in DOMAIN updateParams =>
              /\ DOMAIN updateParams.users = {"to", "cc"}
              /\ updateParams.users.to = transformMembers(args.assignees)
              /\ updateParams.users.cc = transformMembers(args.cc)
              /\ ~IsDefined(args.assignees) => updateParams.users.to = <<>>
              /\ ~IsDefined(args.cc) => updateParams.users.cc = <<>>
              /\ IsDefined(args.assignees) =>
                    Len(updateParams.users.to) = Len(Val(args.assignees))
              /\ IsDefined(args.cc) => Len(updateParams.users.cc) = Len(Val(args.cc))
        /\ \A i \in 1..Len(calls) :
              calls[i].op = "updateTask" => PayloadOf(calls[i]) = updateParams

C22_Witness ==
    /\ Returned
    /\ args.assignees = Some(<<>>)
    /\ ~IsDefined(args.cc)
    /\ Count("updateTask") = 1
    /\ PayloadOf(calls[1]).users = [to |-> <<>>, cc |-> <<>>]

\* ------------------------------------------------------------------------
\* Properties of the upload handlers
\* ------------------------------------------------------------------------
UploadReturned == upc = "done"
FirstStatus == Val(step1Response).status
FirstRedirect == Val(step1Response).redirect
UnexpectedStatusError ==
    /\ IsDefined(uploadError)
    /\ Val(uploadError).message[1] = "Unexpected HTTP status: "

\* C6: in both upload handlers a first response whose status is not 307,
\* 200 or 201 ends in an error envelope and no second request is issued:
\* the invocation makes exactly one network request.
C6_OtherStatusFails ==
    (IsDefined(step1Response) /\ FirstStatus \notin {"307", "200", "201"}) =>
        /\ Len(requests) = 1
        /\ upc \in {"catch", "done"}
        /\ IsDefined(uploadError)
        /\ UploadReturned => uploadEnvelope.isError

C6_Witness ==
    /\ UploadReturned
    /\ IsDefined(step1Response)
    /\ FirstStatus = "500"
    /\ FirstRedirect # ""
    /\ uploadEnvelope.isError
    /\ Len(requests) = 1

\* C7: in both upload handlers, when the first response has status 200 or
\* 201 and no redirect target, the handler re-issues the same multipart POST
\* against the original endpoint, parses the envelope and returns a success
\* envelope when header.isSuccessful is truthy.
C7_DirectUpload ==
    (UploadReturned /\ IsDefined(step1Response)
        /\ FirstStatus \in {"200", "201"} /\ FirstRedirect = "") =>
        /\ Len(requests) = 2
        /\ requests[2] = CurlCommand(ApiUrl(handler), Val(apiToken), FALSE)
        /\ (/\ IsDefined(response)
            /\ TruthyFlag(OptionalChain(Val(response).header, "isSuccessful"))
            /\ IsDefined(Val(response).result)) => ~uploadEnvelope.isError

\* C8: in both upload handlers a 307 first response without a redirect
\* target never leads to a second request or to a success envelope; it
\* fails as an unexpected status.
C8_RedirectWithoutTarget ==
    (IsDefined(step1Response) /\ FirstStatus = "307" /\ FirstRedirect = "") =>
        /\ Len(requests) = 1
        /\ upc \in {"catch", "done"}
        /\ UnexpectedStatusError
        /\ UploadReturned => uploadEnvelope = ErrorEnvelope(Val(uploadError))

C8_Witness ==
    /\ UploadReturned
    /\ IsDefined(step1Response)
    /\ FirstStatus = "307"
    /\ FirstRedirect = ""
    /\ uploadEnvelope.isError

Accepted(status, redirect) ==
    \/ status = "307" /\ redirect # ""
    \/ status \in {"200", "201"}

Names(text, word) == \E i \in 1..Len(text) : text[i] = word

\* C9: in both upload handlers, whenever the first response is not an
\* accepted one, the error text returned names the HTTP status code that the
\* response carried, with or without a redirect target.
C9_ErrorNamesStatus ==
    (UploadReturned /\ IsDefined(step1Response)
        /\ ~Accepted(FirstStatus, FirstRedirect)) =>
        /\ uploadEnvelope.isError
        /\ Names(uploadEnvelope.text[2], FirstStatus)

ResponseOk == TruthyFlag(OptionalChain(Val(response).header, "isSuccessful"))
ResponseMessage == OptionalChain(Val(response).header, "resultMessage")
FromResult(value, res) ==
    /\ value.fileId = res.id
    /\ value.attachFileId = res.attachFileId
    /\ value.mimeType = res.mimeType
    /\ value.size = res.size
SuccessOnlyFromResult ==
    (UploadReturned /\ ~uploadEnvelope.isError) =>
        /\ IsDefined(response)
        /\ ResponseOk
        /\ IsDefined(Val(response).result)
        /\ FromResult(uploadEnvelope.text[2], Val(Val(response).result))

\* C10 as stated: with a falsy or missing header.isSuccessful the handler
\* returns an error envelope whose message is the envelope's resultMessage,
\* or 'Upload failed' when resultMessage is absent; a success envelope only
\* comes from a truthy isSuccessful, its fields taken from result.
C10_MessageUnlessAbsent ==
    /\ (UploadReturned /\ IsDefined(response) /\ ~ResponseOk) =>
          uploadEnvelope = ErrorEnvelope(Error(
              IF IsDefined(ResponseMessage) THEN <<Val(ResponseMessage)>>
              ELSE <<"Upload failed">>))
    /\ SuccessOnlyFromResult

\* C10 amended: with a falsy or missing header.isSuccessful the handler
\* returns an error envelope whose message is the envelope's resultMessage
\* when that is a non-empty string, and 'Upload failed' when it is absent or
\* empty; a success envelope only comes from a truthy isSuccessful, its
\* fields taken from result.
C10_MessageUnlessFalsy ==
    /\ (IsDefined(response) /\ ~ResponseOk) =>
          /\ upc \in {"catch", "done"}
          /\ uploadError = Some(Error(
                IF TruthyString(ResponseMessage) THEN <<Val(ResponseMessage)>>
                ELSE <<"Upload failed">>))
          /\ UploadReturned => uploadEnvelope = ErrorEnvelope(Val(uploadError))
    /\ SuccessOnlyFromResult

C10_Witness ==
    /\ UploadReturned
    /\ IsDefined(response)
    /\ OptionalChain(Val(response).header, "isSuccessful") = Some(FALSE)
    /\ ResponseMessage = Some("quota exceeded")
    /\ uploadEnvelope = ErrorEnvelope(Error(<<"quota exceeded">>))

PrecheckFails == ~TruthyString(apiToken) \/ ~fileExists

\* C11: in both upload handlers, when DOORAY_API_TOKEN is unset or empty or
\* the local file does not exist, the handler returns an error envelope and
\* issues no network request; the token is checked first, so with both
\* missing the error is the missing-token error.
C11_PrecheckBeforeNetwork ==
    (upc # "idle" /\ PrecheckFails) =>
        /\ Len(requests) = 0
        /\ upc \in {"catch", "done"}
        /\ uploadError = Some(Error(
              IF ~TruthyString(apiToken)
              THEN <<"DOORAY_API_TOKEN environment variable is required">>
              ELSE <<"File not found: ", FilePath>>))
        /\ UploadReturned => uploadEnvelope = ErrorEnvelope(Val(uploadError))

C11_Witness ==
    /\ UploadReturned
    /\ handler = "page"
    /\ apiToken = Some("")
    /\ ~fileExists
    /\ Len(requests) = 0
    /\ uploadEnvelope =
          ErrorEnvelope(Error(<<"DOORAY_API_TOKEN environment variable is required">>))

Redirected == IsDefined(step1Response) /\ FirstStatus = "307" /\ FirstRedirect # ""
UploadReturnedSuccess == UploadReturned /\ ~uploadEnvelope.isError

\* C23: for both upload handlers, when the first response is 307 with a
\* non-empty redirect target the handler issues exactly one further request,
\* a multipart POST of the same file to the redirect target and not to the
\* original endpoint; a successful upload is exactly two requests and the
\* second is issued only after the first has completed.
C23_RedirectFollowedOnce ==
    /\ Len(requests) <= 2
    /\ Len(requests) = 2 => IsDefined(step1Response)
    /\ Redirected =>
          /\ Len(requests) = 2
          /\ requests[2].url = <<FirstRedirect>>
          /\ requests[2].url # requests[1].url
          /\ requests[1].url = ApiUrl(handler)
          /\ requests[2].form = requests[1].form
          /\ requests[2].auth = requests[1].auth
    /\ UploadReturnedSuccess => Len(requests) = 2

C23_Witness ==
    /\ UploadReturnedSuccess
    /\ handler = "wiki"
    /\ Redirected
    /\ Len(requests) = 2
    /\ requests[2].url = <<"https://file.example/upload">>

\* The steps of each handler on what this invocation met.
PrecheckOf(h) == Precheck(h, apiToken, fileExists)
ParsedOf(h) == ParseStep1(h, curlWriteOut(FirstStatus, FirstRedirect))
BranchOf(h) == Branch(h, ParsedOf(h).httpCode, ParsedOf(h).redirectUrl)
CheckedOf(h) ==
    IF BranchOf(h) = "redirect" THEN CheckStep2(h, Val(response))
    ELSE CheckDirect(h, Val(response))
ReturnOf(h) == ReturnUpload(h, CheckedOf(h).result, basename(FilePath))
WithoutMessage(e) ==
    [isError |-> e.isError,
     text |-> IF Len(e.text) = 2
              THEN <<e.text[1], [k \in DOMAIN e.text[2] \ {"message"} |-> e.text[2][k]]>>
              ELSE e.text]

\* C24: the wiki-level and the page-level upload handler are the same
\* protocol: on the same token, file and server responses they take the same
\* branch, issue the same number of requests and end in the same success or
\* the same error, differing only in the endpoint URL and the success
\* message.
C24_SameProtocol ==
    upc # "idle" =>
        /\ PrecheckOf("wiki") = PrecheckOf("page")
        /\ IsDefined(step1Response) =>
              /\ ParsedOf("wiki") = ParsedOf("page")
              /\ BranchOf("wiki") = BranchOf("page")
              /\ BranchOf(handler) = "unexpected" <=> Len(requests) = 1
        /\ IsDefined(response) =>
              /\ CheckedOf("wiki") = CheckedOf("page")
              /\ ~IsDefined(CheckedOf(handler).error) =>
                    /\ ReturnOf("wiki").error = ReturnOf("page").error
                    /\ WithoutMessage(ReturnOf("wiki").envelope) =
                          WithoutMessage(ReturnOf("page").envelope)
        /\ ~IsDefined(PrecheckOf(handler)) => requests[1].url = ApiUrl(handler)
        /\ ApiUrl("wiki") # ApiUrl("page")

C24_Witness ==
    /\ UploadReturnedSuccess
    /\ handler = "page"
    /\ Redirected
    /\ Len(requests) = 2
    /\ requests[1].url = uploadWikiPageFileApiUrl
    /\ uploadEnvelope = ReturnOf("page").envelope
    /\ uploadEnvelope # ReturnOf("wiki").envelope

\* ------------------------------------------------------------------------
\* Properties of create-task
\* ------------------------------------------------------------------------
CreateReturned == cpc = "done"
CreateReturnedSuccess == cpc = "done" /\ ~createEnvelope.isError
DraftRequested == createArgs.isDraft = Some(TRUE)

\* C17: create-task issues exactly one creation call per invocation: the
\* draft-create call when isDraft is true, and then a success returns
\* {id, url, message}; the regular create call when isDraft is false or
\* omitted, and then a success returns the created task; never both.
C17_OneCreationCall ==
    /\ Len(createCalls) <= 1
    /\ cpc # "idle" =>
          /\ Len(createCalls) = 1
          /\ createCalls[1].op = IF DraftRequested THEN "createDraftTask" ELSE "createTask"
    /\ CreateReturnedSuccess =>
          IF DraftRequested
          THEN /\ DOMAIN createEnvelope.text[2] = {"id", "url", "message"}
               /\ createEnvelope.text[2].id = DraftCreated.id
               /\ createEnvelope.text[2].url = DraftCreated.url
          ELSE createEnvelope.text[2] = TaskCreated(createCalls[1].arg)

C17_Witness ==
    /\ CreateReturnedSuccess
    /\ DraftRequested
    /\ Len(createCalls) = 1
    /\ createCalls[1].op = "createDraftTask"
    /\ DOMAIN createEnvelope.text[2] = {"id", "url", "message"}

\* C18: when create-task is called without a priority, the creation request
\* built by the handler carries priority "none".
C18_PriorityDefaultsToNone ==
    (cpc # "idle" /\ ~IsDefined(createArgs.priority)) =>
        /\ Val(apiParams).priority = Some("none")
        /\ createCalls[1].arg.priority = Some("none")

\* ------------------------------------------------------------------------
\* Properties of the download handlers
\* ------------------------------------------------------------------------
DownloadReturned == dpc = "done"
DownloadReturnedSuccess == dpc = "done" /\ ~downloadEnvelope.isError
Downloaded == downloadEnvelope.text[2]
Content == Val(download).data
PathGiven == TruthyText(savePath)
DirectoryGiven ==
    /\ PathGiven
    /\ EndsWithSlash(Val(savePath)) \/ Resolve(Val(savePath)) \in disk0.dirs
NameWithIdentifier ==
    IF downloader = "page" THEN <<"wiki-file-", FileId>> ELSE <<"wiki-attach-", AttachFileId>>
Under(directory, name) ==
    IF EndsWithSlash(directory) THEN directory \o name ELSE directory \o <<Slash>> \o name
Holds(d, path, data) ==
    /\ Resolve(path) \in DOMAIN d.files
    /\ d.files[Resolve(path)] = data

\* C13: for both download handlers, when the response has no
\* Content-Disposition header the returned filename is undefined, and with a
\* directory-style savePath (ending in '/' or an existing directory) the file
\* is written in that directory under the generated name wiki-file-<fileId>
\* or wiki-attach-<attachFileId>.
C13_NoHeaderGeneratedName ==
    (DownloadReturnedSuccess /\ ~IsDefined(Val(download).contentDisposition)) =>
        /\ "filename" \notin DOMAIN Downloaded
        /\ DirectoryGiven =>
              /\ Downloaded.savedTo = Under(Val(savePath), NameWithIdentifier)
              /\ Holds(disk, Under(Val(savePath), NameWithIdentifier), Content)
              /\ Parent(Resolve(Downloaded.savedTo)) = Resolve(Val(savePath))

C13_Witness ==
    /\ DownloadReturnedSuccess
    /\ downloader = "attach"
    /\ ~IsDefined(Val(download).contentDisposition)
    /\ savePath = Some(AbsolutePath(<<"tmp", "dl">>))
    /\ Dl \in disk0.dirs
    /\ Downloaded.savedTo = AbsolutePath(<<"tmp", "dl">>) \o <<Slash, "wiki-attach-", AttachFileId>>
    /\ Holds(disk, Downloaded.savedTo, Content)

RecoveredName ==
    IF "filename" \in DOMAIN Downloaded /\ Downloaded.filename # <<>>
    THEN Downloaded.filename
    ELSE NameWithIdentifier
ExpectedTarget ==
    IF DirectoryGiven THEN PathJoin(Val(savePath), RecoveredName) ELSE Val(savePath)
ExpectedDirectory ==
    IF DirectoryGiven THEN Resolve(Val(savePath)) ELSE Parent(Resolve(Val(savePath)))

\* C14: for both download handlers with a savePath: if it is an existing
\* directory or ends in a separator the file is written to savePath joined
\* with the recovered filename, the directory being created if missing;
\* otherwise it is written to exactly savePath after its missing parent
\* directories were created; savedTo is the path that was written.
C14_SavePathHandling ==
    (DownloadReturnedSuccess /\ PathGiven) =>
        /\ Downloaded.savedTo = ExpectedTarget
        /\ disk.files = (Resolve(ExpectedTarget) :> Content) @@ disk0.files
        /\ disk.dirs = disk0.dirs \cup Prefixes(ExpectedDirectory)

C14_Witness ==
    /\ DownloadReturnedSuccess
    /\ downloader = "page"
    /\ savePath = Some(AbsolutePath(<<"tmp", "new", "out.bin">>))
    /\ Parent(Resolve(Val(savePath))) \notin disk0.dirs
    /\ Parent(Resolve(Val(savePath))) \in disk.dirs
    /\ Downloaded.savedTo = Val(savePath)
    /\ Holds(disk, Val(savePath), Content)

\* C15: for both download handlers a successful result carries exactly one
\* of savedTo and base64Data: with no local path (omitted or empty) nothing
\* is written or created and the content comes back base64-encoded; with a
\* local path the content is on disk and there is no base64Data.
C15_SavedOrEncoded ==
    DownloadReturnedSuccess =>
        IF PathGiven
        THEN /\ "savedTo" \in DOMAIN Downloaded
             /\ "base64Data" \notin DOMAIN Downloaded
             /\ Holds(disk, Downloaded.savedTo, Content)
        ELSE /\ "base64Data" \in DOMAIN Downloaded
             /\ "savedTo" \notin DOMAIN Downloaded
             /\ Downloaded.base64Data = Base64(Content)
             /\ disk = disk0

C15_Witness ==
    /\ DownloadReturnedSuccess
    /\ downloader = "attach"
    /\ savePath = Undefined
    /\ disk0 # EmptyDisk
    /\ disk = disk0
    /\ Downloaded.base64Data = Base64(Content)

Answered == IsDefined(download)
Header == Val(download).contentDisposition
Matched == Answered /\ TruthyText(Header) /\ IsDefined(FilenameMatch(Val(Header)))
Captured == Val(FilenameMatch(Val(Header)))
HasEscape(s) == \E i \in 1..Len(s) : s[i] \in PercentValid \cup PercentInvalid
HasMalformedEscape(s) == \E i \in 1..Len(s) : s[i] \in PercentInvalid
WithoutQuotes(s) == \A i \in 1..Len(s) : s[i] \notin Quotes
FileSystemErrors == {Error(<<"EEXIST">>), Error(<<"EISDIR">>), Error(<<"ENOENT">>)}

\* C25: in both download handlers, when the filename captured from
\* Content-Disposition is not valid percent-encoding the extracted name is
\* the captured text with its quotes stripped and nothing decoded, and the
\* download goes on to its normal outcome: the decoding failure is never the
\* error of an error envelope.
C25_MalformedEscapeKeepsRaw ==
    (Matched /\ HasMalformedEscape(Captured)) =>
        /\ Filename(downloader, Val(download)) = Some(StripQuotes(Captured))
        /\ WithoutQuotes(StripQuotes(Captured)) /\ HasMalformedEscape(StripQuotes(Captured))
        /\ DownloadReturnedSuccess => Downloaded.filename = StripQuotes(Captured)
        /\ ~PathGiven => DownloadReturnedSuccess
        /\ IsDefined(downloadError) => Val(downloadError) \in FileSystemErrors

C25_Witness ==
    /\ DownloadReturnedSuccess
    /\ downloader = "attach"
    /\ Header = Some(Quoted(<<"%41", "%zz">>))
    /\ Downloaded.filename = <<"%41", "%zz">>
    /\ PathGiven
    /\ Holds(disk, Downloaded.savedTo, Content)

FormsAgree ==
    \A name \in PlainNames :
        /\ extractFilename(Some(Quoted(name))) = Some(name)
        /\ extractFilename(Some(Unquoted(name))) = Some(name)
        /\ extractFilenameAttach(Some(Quoted(name))) = Some(name)
        /\ extractFilenameAttach(Some(Unquoted(name))) = Some(name)
ReturnedNameAgrees ==
    \A name \in PlainNames :
        (DownloadReturnedSuccess /\ Header \in {Some(Quoted(name)), Some(Unquoted(name))}) =>
            Downloaded.filename = name

IsInside(directory, location) ==
    /\ Len(location) > Len(directory)
    /\ SubSeq(location, 1, Len(directory)) = directory

\* C28: for both download handlers called with a directory-style savePath
\* D, the file is written at a path inside D for every filename that the
\* Content-Disposition header can yield, names with path separators or '..'
\* segments included.
C28_WrittenInsideDirectory ==
    (DownloadReturnedSuccess /\ DirectoryGiven) =>
        /\ IsInside(Resolve(Val(savePath)), Resolve(Downloaded.savedTo))
        /\ disk.files = (Resolve(Downloaded.savedTo) :> Content) @@ disk0.files

\* ------------------------------------------------------------------------
\* Properties of update-wiki-page
\* ------------------------------------------------------------------------
SentBody == wikiRequests[1].body

\* C29: update-wiki-page issues exactly one PUT whose body includes each of
\* subject, body and referrers if and only if the caller supplied subject,
\* content, referrers, by presence and not by truthiness: content "" sends a
\* body with empty content and referrers null sends referrers null.
C29_BodyByPresence ==
    /\ Len(wikiRequests) <= 1
    /\ wpc # "idle" =>
          /\ Len(wikiRequests) = 1
          /\ wikiRequests[1].method = "PUT"
          /\ "subject" \in DOMAIN SentBody <=> IsDefined(wikiArgs.subject)
          /\ IsDefined(wikiArgs.subject) => SentBody.subject = Val(wikiArgs.subject)
          /\ "body" \in DOMAIN SentBody <=> IsDefined(wikiArgs.content)
          /\ IsDefined(wikiArgs.content) =>
                SentBody.body = [mimeType |-> "text/x-markdown", content |-> Val(wikiArgs.content)]
          /\ "referrers" \in DOMAIN SentBody <=> IsDefined(wikiArgs.referrers)
          /\ IsDefined(wikiArgs.referrers) => SentBody.referrers = Val(wikiArgs.referrers)

\* ------------------------------------------------------------------------
\* Properties of every tool
\* ------------------------------------------------------------------------
IsSuccessEnvelope(e) == ~e.isError /\ Len(e.text) = 2 /\ e.text[1] = "json"
IsErrorEnvelope(e) == e.isError /\ Len(e.text) = 2 /\ e.text[1] = "Error: "

\* One invocation: nothing is returned before the end, the value returned is
\* one of the two envelopes, a caught failure ends in the error envelope and
\* is never left uncaught.
Outcome(position, e, failure) ==
    /\ position # "done" => e = NoEnvelope
    /\ position = "done" => (IsSuccessEnvelope(e) \/ IsErrorEnvelope(e))
    /\ IsDefined(failure) => position \in {"catch", "done"}
    /\ (position = "done" /\ IsDefined(failure)) => IsErrorEnvelope(e)

\* C12: every tool handler invocation ends in a success envelope without
\* isError or in an envelope with isError whose text begins with 'Error: ';
\* no failure of an API call, a file-system operation or a response parse
\* leaves the handler as an exception, and a success envelope is returned
\* only if every call the handler issued completed without error.
C12_UniformOutcome ==
    /\ Outcome(pc, envelope, error)
    /\ Outcome(upc, uploadEnvelope, uploadError)
    /\ Outcome(cpc, createEnvelope, createError)
    /\ Outcome(dpc, downloadEnvelope, downloadError)
    /\ Outcome(xpc, deleteEnvelope, deleteError)
    /\ Outcome(wpc, wikiEnvelope, wikiError)
    /\ ReturnedSuccess =>
          /\ Len(responses) = Len(calls)
          /\ \A i \in 1..Len(responses) : responses[i].ok

C12_Witness ==
    /\ DownloadReturned
    /\ downloader = "page"
    /\ downloadError = Some(Error(<<"EEXIST">>))
    /\ IsErrorEnvelope(downloadEnvelope)
    /\ pc = "idle"

====
